---- MODULE Spec2Model ----
(***************************************************************************)
(* PolyParser (src/main.cpp): the layout codec (Deserializer, Serializer), *)
(* the bridge codec in its two decoders (Deserializer::deserializeBridge   *)
(* and SimpleBridgeDeserializer) and the save-slot decoder                 *)
(* (SlotDeserializer), modelled over byte streams.                         *)
(*                                                                         *)
(* A file is a sequence of bytes 0..255.  A reader is a record             *)
(*   [p  |-> offset of the next byte (0-based),                            *)
(*    ok |-> FALSE once a read ran past the end of the stream (failbit),   *)
(*    un |-> the global unusualNumbers,                                    *)
(*    ab |-> TRUE once exit(1) was called or an exception escaped,         *)
(*    ub |-> TRUE once a value was taken from a read that failed].         *)
(* After failbit every later read of the C++ code leaves its target        *)
(* indeterminate; the model stops the decode at the first such read and    *)
(* reports the run as "failed": nothing is asserted of the values a failed *)
(* run would have produced after that point.                               *)
(*                                                                         *)
(* A float is modelled by the integer n that stands for n/1000 (One is     *)
(* 1.0f); its four bytes on the wire are those of the int32 n.  The codec  *)
(* only copies floats, except for the piston correction, abs() of a ramp   *)
(* height, the static pin z and the colour bytes, all of which are exact   *)
(* on this grid.  A colour channel is modelled by the byte b it was read   *)
(* from (the float b/255.0f).  A string is the sequence of its bytes.      *)
(***************************************************************************)
EXTENDS Integers, Sequences, FiniteSets, TLC

VARIABLES
  pc,              \* position of the running operation
  file,            \* the bytes of the file being written or read
  rd,              \* the reader [p, ok, un, ab]; un is unusualNumbers
  src,             \* Serializer::layout, the Layout being encoded
  layout,          \* the Layout Deserializer::deserializeLayout is building
  trace,           \* the fields consumed so far: <<name, wire type, offset>>;
                   \* of a slot, the entries peeked: <<step, category, name, offset>>
  sections,        \* the sections of deserializeLayout entered so far
  wtrace,          \* the fields the Serializer wrote: <<name, wire type, offset>>
  simple,          \* what SimpleBridgeDeserializer returned: <<>> or <<[v, st, tr]>>
  slot,            \* the SaveSlot SlotDeserializer::deserializeSlot is building
  step,            \* the step of deserializeSlot that comes next
  json,            \* the .layout.json document dump_json wrote
  given            \* the test input this run was started from

vars == <<pc, file, rd, src, layout, trace, sections, wtrace, simple, slot, step, json, given>>

-----------------------------------------------------------------------------
(* Program constants *)

MAX_VERSION == 26
MAX_BRIDGE_VERSION == 11
MAX_SLOT_VERSION == 3
MAX_PHYSICS_VERSION == 1

\* 1.0f on the float grid (thousandths)
One == 1000
\* the literals of fixPistonNormalizedValue
Quarter == 250
Half == 500
ThreeQuarters == 750
\* the z every static pin is given, -1.348f
StaticPinZ == -1348
\* mass and bounciness defaults of deserializeCustomShape, 40.0f and 0.5f
DefaultMass == 40000
DefaultBounciness == 500

MinInt32 == -2147483647 - 1
MaxInt32 == 2147483646 + 1

-----------------------------------------------------------------------------
(* Bytes and little-endian scalars *)

Abs(x) == IF x < 0 THEN -x ELSE x

\* the signed 32-bit value of four little-endian bytes
S32(b0, b1, b2, b3) ==
  (b0 + 256 * b1 + 65536 * b2) + 16777216 * (IF b3 >= 128 THEN b3 - 256 ELSE b3)

\* the four little-endian bytes of a signed 32-bit value
LE32(v) ==
  LET w == IF v < 0 THEN v - MinInt32 ELSE v   \* low 31 bits
  IN  << w % 256, (w \div 256) % 256, (w \div 65536) % 256,
         ((w \div 16777216) % 128) + (IF v < 0 THEN 128 ELSE 0) >>

U16(b0, b1) == b0 + 256 * b1
S16(b0, b1) == IF b1 >= 128 THEN U16(b0, b1) - 65536 ELSE U16(b0, b1)
LE16(v) == << v % 256, (v \div 256) % 256 >>

\* the sequences ss[lo..hi] one after the other, by halving the range
RECURSIVE FlattenFrom(_, _, _)
FlattenFrom(ss, lo, hi) ==
  CASE lo > hi -> <<>>
    [] lo = hi -> ss[lo]
    [] OTHER -> FlattenFrom(ss, lo, (lo + hi) \div 2)
                \o FlattenFrom(ss, ((lo + hi) \div 2) + 1, hi)

Flatten(ss) == FlattenFrom(ss, 1, Len(ss))

-----------------------------------------------------------------------------
(* Utils::ensureReasonable and Utils::intc, on the reader's counter *)

\* the guard aborting from the fourth offense on
ensureReasonable_fourth(st, value, min, max, warnMin, warnMax) ==
  IF value < min \/ value > max
    THEN IF st.un >= 4 THEN [st EXCEPT !.ab = TRUE]
                       ELSE [st EXCEPT !.un = @ + 1]
  ELSE IF value < warnMin \/ value > warnMax
    THEN IF st.un >= 4 THEN [st EXCEPT !.ab = TRUE] ELSE st
  ELSE st

\* the guard only warning about a value outside the warning envelope
ensureReasonable_warnOnly(st, value, min, max, warnMin, warnMax) ==
  IF value < min \/ value > max
    THEN IF st.un >= 3 THEN [st EXCEPT !.ab = TRUE]
                       ELSE [st EXCEPT !.un = @ + 1]
  ELSE st

ensureReasonable(st, value, min, max, warnMin, warnMax) ==
  IF value < min \/ value > max
    THEN IF st.un >= 3 THEN [st EXCEPT !.ab = TRUE]
                       ELSE [st EXCEPT !.un = @ + 1]
  ELSE IF value < warnMin \/ value > warnMax
    THEN IF st.un >= 3 THEN [st EXCEPT !.ab = TRUE] ELSE st
  ELSE st

intc(st, value) == ensureReasonable(st, value, -1000, 10000, 0, 4096)

-----------------------------------------------------------------------------
(* Deserializer: primitive readers over (stream, reader) *)

Halted(st) == ~st.ok \/ st.ab
Avail(s, st, n) == st.p + n <= Len(s)
Fail(s, st) == [st EXCEPT !.ok = FALSE, !.p = Len(s)]
Adv(st, n) == [st EXCEPT !.p = @ + n]

readInt8(s, st) ==
  IF Avail(s, st, 1) THEN [v |-> s[st.p + 1], st |-> Adv(st, 1)]
                     ELSE [v |-> 0, st |-> Fail(s, st)]

readBool(s, st) ==
  LET r == readInt8(s, st) IN [v |-> (r.v # 0), st |-> r.st]

readInt16(s, st) ==
  IF Avail(s, st, 2) THEN [v |-> S16(s[st.p + 1], s[st.p + 2]), st |-> Adv(st, 2)]
                     ELSE [v |-> 0, st |-> Fail(s, st)]

readUInt16(s, st) ==
  IF Avail(s, st, 2) THEN [v |-> U16(s[st.p + 1], s[st.p + 2]), st |-> Adv(st, 2)]
                     ELSE [v |-> 0, st |-> Fail(s, st)]

readInt32(s, st) ==
  IF Avail(s, st, 4)
    THEN [v |-> S32(s[st.p + 1], s[st.p + 2], s[st.p + 3], s[st.p + 4]),
          st |-> Adv(st, 4)]
    ELSE [v |-> 0, st |-> Fail(s, st)]

readFloat(s, st) == readInt32(s, st)

readString(s, st) ==
  LET n == readUInt16(s, st)
  IN  IF ~n.st.ok THEN [v |-> <<>>, st |-> n.st]
      ELSE IF Avail(s, n.st, n.v)
        THEN [v |-> SubSeq(s, n.st.p + 1, n.st.p + n.v), st |-> Adv(n.st, n.v)]
        ELSE [v |-> <<>>, st |-> Fail(s, n.st)]

\* k consecutive floats, as a tuple; a read that fails ends the stream
readFloats(s, st, k) ==
  IF Avail(s, st, 4 * k)
    THEN [v |-> [i \in 1..k |-> readFloat(s, Adv(st, 4 * (i - 1))).v],
          st |-> Adv(st, 4 * k)]
    ELSE [v |-> <<>>, st |-> Fail(s, st)]

readVec2(s, st) == readFloats(s, st, 2)
readVec3(s, st) == readFloats(s, st, 3)
readQuaternion(s, st) == readFloats(s, st, 4)

\* r, g, b from one byte each; a is 1.0f (255/255)
readColor(s, st) ==
  IF Avail(s, st, 3)
    THEN [v |-> <<s[st.p + 1], s[st.p + 2], s[st.p + 3], 255>>, st |-> Adv(st, 3)]
    ELSE [v |-> <<0, 0, 0, 255>>, st |-> Fail(s, st)]

-----------------------------------------------------------------------------
(* The piston correction *)

clamp01(value) == IF value < 0 THEN 0 ELSE IF value > One THEN One ELSE value

lerp(a, b, t) == a + ((b - a) * t) \div One

\* the correction with the ends of the upper interpolation exchanged
fixPistonNormalizedValue_exchanged(value) ==
  IF value < Quarter
    THEN lerp(One, Half, clamp01((value * One) \div Quarter))
  ELSE IF value > ThreeQuarters
    THEN lerp(One, Half, clamp01(((value - ThreeQuarters) * One) \div Quarter))
  ELSE lerp(0, Half, clamp01((Abs(value - Half) * One) \div Quarter))

fixPistonNormalizedValue(value) ==
  IF value < Quarter
    THEN lerp(One, Half, clamp01((value * One) \div Quarter))
  ELSE IF value > ThreeQuarters
    THEN lerp(Half, One, clamp01(((value - ThreeQuarters) * One) \div Quarter))
  ELSE lerp(0, Half, clamp01((Abs(value - Half) * One) \div Quarter))

-----------------------------------------------------------------------------
(* Record layouts.  A decoder or encoder of one record is the ordered list *)
(* of the fields it reads or writes; a field is                            *)
(*   [n |-> name, k |-> kind, sub |-> element record or constant,          *)
(*    keep |-> whether the value read is stored].                          *)
(* Kinds: i16 i32 f32 bool str vec2 vec3 quat color are the wire types;    *)
(* f32abs is a float stored as its absolute value, f32fix a float stored   *)
(* through fixPistonNormalizedValue, vec3pin a Vec3 whose z is replaced by *)
(* StaticPinZ, strNE a string stored only when it is not empty, i32cash    *)
(* the budget's cash, which is passed to Utils::intc; list is an           *)
(* int32 count followed by that many elements, listc a list whose count is *)
(* passed to Utils::intc before the loop; rec is a nested record and       *)
(* bridge the bridge of Deserializer::deserializeBridge; const consumes    *)
(* nothing and stores sub.                                                 *)

F(n, k) == [n |-> n, k |-> k, sub |-> "", keep |-> TRUE]
D(n, k) == [n |-> n, k |-> k, sub |-> "", keep |-> FALSE]
K(n, v) == [n |-> n, k |-> "const", sub |-> v, keep |-> TRUE]
L(n, e) == [n |-> n, k |-> "list", sub |-> e, keep |-> TRUE]
Lc(n, e) == [n |-> n, k |-> "listc", sub |-> e, keep |-> TRUE]
DL(n, e) == [n |-> n, k |-> "list", sub |-> e, keep |-> FALSE]
DLc(n, e) == [n |-> n, k |-> "listc", sub |-> e, keep |-> FALSE]
R(n, e) == [n |-> n, k |-> "rec", sub |-> e, keep |-> TRUE]

PrimKinds == {"i16", "i32", "f32", "bool", "str", "vec2", "vec3", "quat", "color",
              "f32abs", "f32fix", "vec3pin", "strNE", "i32cash"}

\* the type a kind occupies on the wire
WireKind(k) ==
  CASE k = "f32abs" -> "f32"
    [] k = "f32fix" -> "f32"
    [] k = "vec3pin" -> "vec3"
    [] k = "strNE" -> "str"
    [] k = "i32cash" -> "i32"
    [] k = "lit32" -> "i32"
    [] OTHER -> k

(* Deserializer: the field list of each deserialize function; those that   *)
(* depend on the version are definitions of their own, the others are rows *)
(* of ElemFields                                                           *)

\* an edge whose GUID is read from version 10 on
deserializeEdge_from10(version) ==
  << F("material_type", "i32"), F("node_a_guid", "str"), F("node_b_guid", "str"),
     F("joint_a_part", "i32"), F("joint_b_part", "i32"),
     IF version >= 10 THEN F("guid", "str") ELSE K("guid", <<>>) >>

deserializeEdge(version) ==
  << F("material_type", "i32"), F("node_a_guid", "str"), F("node_b_guid", "str"),
     F("joint_a_part", "i32"), F("joint_b_part", "i32"),
     IF version >= 11 THEN F("guid", "str") ELSE K("guid", <<>>) >>

\* a piston corrected below version 9
deserializePiston_below9(version) ==
  << F("normalized_value", IF version < 9 THEN "f32fix" ELSE "f32"),
     F("node_a_guid", "str"), F("node_b_guid", "str"), F("guid", "str") >>

deserializePiston(version) ==
  << F("normalized_value", IF version < 8 THEN "f32fix" ELSE "f32"),
     F("node_a_guid", "str"), F("node_b_guid", "str"), F("guid", "str") >>

deserializeHydraulicControllerPhase(version) ==
  << F("hydraulics_phase_guid", "str"), L("piston_guids", "str"),
     IF version > 2 THEN L("bridge_split_joints", "SplitJoint")
                    ELSE DL("garbage_strings", "str") >>
  \o (IF version > 2 THEN <<>> ELSE << K("bridge_split_joints", <<>>) >>)
  \o (IF version > 9 THEN << F("disable_new_additions", "bool") >>
                     ELSE << K("disable_new_additions", FALSE) >>)

\* a bridge whose springs are read from version 8 on
deserializeBridgeBody_springs8(version) ==
  IF version < 2
    THEN << K("joints", <<>>), K("edges", <<>>), K("springs", <<>>),
            K("pistons", <<>>), K("phases", <<>>), K("anchors", <<>>) >>
    ELSE << Lc("joints", "Joint"), Lc("edges", "Edge") >>
      \o (IF version >= 8 THEN << Lc("springs", "Spring") >>
                          ELSE << K("springs", <<>>) >>)
      \o << Lc("pistons", "Piston"), Lc("phases", "HydraulicControllerPhase") >>
      \o (IF version = 5 THEN << DL("garbage_v5", "str") >> ELSE <<>>)
      \o (IF version >= 6 THEN << Lc("anchors", "Anchor") >>
                          ELSE << K("anchors", <<>>) >>)
      \o (IF version >= 4 /\ version < 9 THEN << D("garbage_bool", "bool") >> ELSE <<>>)

\* the fields of deserializeBridge after the version
deserializeBridgeBody(version) ==
  IF version < 2
    THEN << K("joints", <<>>), K("edges", <<>>), K("springs", <<>>),
            K("pistons", <<>>), K("phases", <<>>), K("anchors", <<>>) >>
    ELSE << Lc("joints", "Joint"), Lc("edges", "Edge") >>
      \o (IF version >= 7 THEN << Lc("springs", "Spring") >>
                          ELSE << K("springs", <<>>) >>)
      \o << Lc("pistons", "Piston"), Lc("phases", "HydraulicControllerPhase") >>
      \o (IF version = 5 THEN << DL("garbage_v5", "str") >> ELSE <<>>)
      \o (IF version >= 6 THEN << Lc("anchors", "Anchor") >>
                          ELSE << K("anchors", <<>>) >>)
      \o (IF version >= 4 /\ version < 9 THEN << D("garbage_bool", "bool") >> ELSE <<>>)

deserializeZAxisVehicle(version) ==
  << F("pos", "vec2"), F("prefab_name", "str"), F("guid", "str"), F("time_delay", "f32"),
     IF version >= 8 THEN F("speed", "f32") ELSE K("speed", 0) >>
  \o (IF version >= 26 THEN << F("rot", "quat"), F("rotation_degrees", "f32") >>
                       ELSE << K("rot", <<0, 0, 0, 0>>), K("rotation_degrees", 0) >>)

\* an event unit that is one string only above version 7
deserializeEventUnit_above7(version) ==
  IF version > 7
    THEN << F("guid", "str") >>
    ELSE << K("guid", <<>>), F("guid", "strNE"), F("guid", "strNE"), F("guid", "strNE") >>

deserializeEventUnit(version) ==
  IF version >= 7
    THEN << F("guid", "str") >>
    ELSE << K("guid", <<>>), F("guid", "strNE"), F("guid", "strNE"), F("guid", "strNE") >>

deserializePlatform(version) ==
  << F("pos", "vec2"), F("width", "f32"), F("height", "f32"), F("flipped", "bool") >>
  \o (IF version >= 22 THEN << F("solid", "bool") >>
                       ELSE << K("solid", FALSE), D("garbage_int", "i32") >>)

deserializeTerrainStretch(version) ==
  << F("pos", "vec3"), F("prefab_name", "str"), F("height_added", "f32"),
     F("right_edge_water_height", "f32"), F("terrain_island_type", "i32"),
     F("variant_index", "i32"), F("flipped", "bool"),
     IF version >= 6 THEN F("lock_position", "bool") ELSE K("lock_position", FALSE) >>

\* a ramp whose hide-legs flag is read from version 22 on
deserializeRamp_hide22(version) ==
  << F("pos", "vec2"), L("control_points", "vec2"), F("height", "f32abs"),
     F("num_segments", "i32"), F("spline_type", "i32"), F("flipped_vertical", "bool"),
     F("flipped_horizontal", "bool"),
     IF version >= 22 THEN F("hide_legs", "bool") ELSE K("hide_legs", FALSE) >>
  \o (IF version >= 25 THEN << F("flipped_legs", "bool") >>
      ELSE IF version >= 22 THEN << K("flipped_legs", FALSE), D("garbage_bool", "bool") >>
      ELSE << K("flipped_legs", FALSE), D("garbage_int", "i32") >>)
  \o (IF version >= 13 THEN << L("line_points", "vec2") >>
                       ELSE << K("line_points", <<>>) >>)

deserializeRamp(version) ==
  << F("pos", "vec2"), L("control_points", "vec2"), F("height", "f32abs"),
     F("num_segments", "i32"), F("spline_type", "i32"), F("flipped_vertical", "bool"),
     F("flipped_horizontal", "bool"),
     IF version >= 23 THEN F("hide_legs", "bool") ELSE K("hide_legs", FALSE) >>
  \o (IF version >= 25 THEN << F("flipped_legs", "bool") >>
      ELSE IF version >= 22 THEN << K("flipped_legs", FALSE), D("garbage_bool", "bool") >>
      ELSE << K("flipped_legs", FALSE), D("garbage_int", "i32") >>)
  \o (IF version >= 13 THEN << L("line_points", "vec2") >>
                       ELSE << K("line_points", <<>>) >>)

deserializeWaterBlock(version) ==
  << F("pos", "vec3"), F("width", "f32"), F("height", "f32"),
     IF version >= 12 THEN F("lock_position", "bool") ELSE K("lock_position", FALSE) >>

\* a custom shape whose color is read from version 11 on
deserializeCustomShape_color11(version) ==
  << F("pos", "vec3"), F("rot", "quat"), F("scale", "vec3"), F("flipped", "bool"),
     F("dynamic", "bool"), F("collides_with_road", "bool"), F("collides_with_nodes", "bool"),
     IF version >= 25 THEN F("collides_with_split_nodes", "bool")
                      ELSE K("collides_with_split_nodes", FALSE),
     F("rotation_degrees", "f32") >>
  \o (IF version >= 11 THEN << F("color", "color") >>
                       ELSE << K("color", <<0, 0, 0, 0>>), D("garbage_color", "i32") >>)
  \o (IF version >= 11 THEN << F("mass", "f32") >>
                       ELSE << D("garbage_mass", "f32"), K("mass", DefaultMass) >>)
  \o (IF version >= 14 THEN << F("bounciness", "f32") >>
                       ELSE << K("bounciness", DefaultBounciness) >>)
  \o (IF version >= 24
        THEN << F("pin_motor_strength", "f32"), F("pin_target_velocity", "f32") >>
        ELSE << K("pin_motor_strength", 0), K("pin_target_velocity", 0) >>)
  \o << L("points_local_space", "vec2"), L("static_pins", "vec3pin"),
        L("dynamic_anchor_guids", "str") >>

deserializeCustomShape(version) ==
  << F("pos", "vec3"), F("rot", "quat"), F("scale", "vec3"), F("flipped", "bool"),
     F("dynamic", "bool"), F("collides_with_road", "bool"), F("collides_with_nodes", "bool"),
     IF version >= 25 THEN F("collides_with_split_nodes", "bool")
                      ELSE K("collides_with_split_nodes", FALSE),
     F("rotation_degrees", "f32") >>
  \o (IF version >= 10 THEN << F("color", "color") >>
                       ELSE << K("color", <<0, 0, 0, 0>>), D("garbage_color", "i32") >>)
  \o (IF version >= 11 THEN << F("mass", "f32") >>
                       ELSE << D("garbage_mass", "f32"), K("mass", DefaultMass) >>)
  \o (IF version >= 14 THEN << F("bounciness", "f32") >>
                       ELSE << K("bounciness", DefaultBounciness) >>)
  \o (IF version >= 24
        THEN << F("pin_motor_strength", "f32"), F("pin_target_velocity", "f32") >>
        ELSE << K("pin_motor_strength", 0), K("pin_target_velocity", 0) >>)
  \o << L("points_local_space", "vec2"), L("static_pins", "vec3pin"),
        L("dynamic_anchor_guids", "str") >>

deserializeWorkshop(version) ==
  << F("id", "str"),
     IF version >= 16 THEN F("leaderboard_id", "str") ELSE K("leaderboard_id", <<>>),
     F("title", "str"), F("description", "str"), F("autoplay", "bool"),
     Lc("tags", "str") >>

\* an inline bridge that starts with its version
inlineBridge_versionRead ==
  << F("version", "i32"), Lc("joints", "Joint"), Lc("edges", "InlineEdge"),
     K("springs", <<>>), Lc("pistons", "InlinePiston"), K("phases", <<>>),
     K("anchors", <<>>) >>

\* deserializeLayout, version <= 4: joints, edges and pistons read in line into
\* layout.bridge, whose version keeps its initial value 0 and is what
\* deserializeEdge and deserializePiston are given
inlineBridge ==
  << K("version", 0), Lc("joints", "Joint"), Lc("edges", "InlineEdge"),
     K("springs", <<>>), Lc("pistons", "InlinePiston"), K("phases", <<>>),
     K("anchors", <<>>) >>

\* one entry of the legacy garbage block: a string, then a counted list of strings
garbageEntry == << D("garbage_string", "str"), DL("garbage_strings", "str") >>

\* deserializeLayout after the version: the sections in the order read
\* a layout whose hydraulics phases are read before the bridge from version 4 on
deserializeLayoutSections_phases4(version) ==
  << F("stubKey", "str") >>
  \o (IF version >= 19 THEN << Lc("anchors", "Anchor") >> ELSE <<>>)
  \o (IF version >= 4 THEN << Lc("phases", "Phase") >> ELSE <<>>)
  \o (IF version > 4 THEN << [n |-> "bridge", k |-> "bridge", sub |-> "", keep |-> TRUE] >>
                     ELSE << R("bridge", "InlineBridge") >>)
  \o (IF version >= 7 THEN << Lc("zAxisVehicles", "ZAxisVehicle") >> ELSE <<>>)
  \o << Lc("vehicles", "Vehicle"), Lc("vehicleStopTriggers", "VehicleStopTrigger") >>
  \o (IF version < 20 THEN << Lc("themeObjects_OBSOLETE", "ThemeObject") >> ELSE <<>>)
  \o << Lc("eventTimelines", "EventTimeline"), Lc("checkpoints", "Checkpoint"),
        Lc("terrainStretches", "TerrainStretch"), Lc("platforms", "Platform"),
        Lc("ramps", "Ramp") >>
  \o (IF version < 5 THEN << Lc("phases", "Phase") >> ELSE <<>>)
  \o << Lc("vehicleRestartPhases", "VehicleRestartPhase"),
        Lc("flyingObjects", "FlyingObject"), Lc("rocks", "Rock"),
        Lc("waterBlocks", "WaterBlock") >>
  \o (IF version < 5 THEN << DL("garbage", "Garbage") >> ELSE <<>>)
  \o << R("budget", "Budget"), R("settings", "Settings") >>
  \o (IF version >= 9 THEN << Lc("customShapes", "CustomShape") >> ELSE <<>>)
  \o (IF version >= 15 THEN << R("workshop", "Workshop") >> ELSE <<>>)
  \o (IF version >= 17 THEN << Lc("supportPillars", "SupportPillar") >> ELSE <<>>)
  \o (IF version >= 18 THEN << Lc("pillars", "Pillar") >> ELSE <<>>)

\* a layout with a garbage block after the in-line bridge as well
deserializeLayoutSections_garbage2(version) ==
  << F("stubKey", "str") >>
  \o (IF version >= 19 THEN << Lc("anchors", "Anchor") >> ELSE <<>>)
  \o (IF version >= 5 THEN << Lc("phases", "Phase") >> ELSE <<>>)
  \o (IF version > 4 THEN << [n |-> "bridge", k |-> "bridge", sub |-> "", keep |-> TRUE] >>
                     ELSE << R("bridge", "InlineBridge"), DL("garbage", "Garbage") >>)
  \o (IF version >= 7 THEN << Lc("zAxisVehicles", "ZAxisVehicle") >> ELSE <<>>)
  \o << Lc("vehicles", "Vehicle"), Lc("vehicleStopTriggers", "VehicleStopTrigger") >>
  \o (IF version < 20 THEN << Lc("themeObjects_OBSOLETE", "ThemeObject") >> ELSE <<>>)
  \o << Lc("eventTimelines", "EventTimeline"), Lc("checkpoints", "Checkpoint"),
        Lc("terrainStretches", "TerrainStretch"), Lc("platforms", "Platform"),
        Lc("ramps", "Ramp") >>
  \o (IF version < 5 THEN << Lc("phases", "Phase") >> ELSE <<>>)
  \o << Lc("vehicleRestartPhases", "VehicleRestartPhase"),
        Lc("flyingObjects", "FlyingObject"), Lc("rocks", "Rock"),
        Lc("waterBlocks", "WaterBlock") >>
  \o (IF version < 5 THEN << DL("garbage", "Garbage") >> ELSE <<>>)
  \o << R("budget", "Budget"), R("settings", "Settings") >>
  \o (IF version >= 9 THEN << Lc("customShapes", "CustomShape") >> ELSE <<>>)
  \o (IF version >= 15 THEN << R("workshop", "Workshop") >> ELSE <<>>)
  \o (IF version >= 17 THEN << Lc("supportPillars", "SupportPillar") >> ELSE <<>>)
  \o (IF version >= 18 THEN << Lc("pillars", "Pillar") >> ELSE <<>>)

deserializeLayoutSections(version) ==
  << F("stubKey", "str") >>
  \o (IF version >= 19 THEN << Lc("anchors", "Anchor") >> ELSE <<>>)
  \o (IF version >= 5 THEN << Lc("phases", "Phase") >> ELSE <<>>)
  \o (IF version > 4 THEN << [n |-> "bridge", k |-> "bridge", sub |-> "", keep |-> TRUE] >>
                     ELSE << R("bridge", "InlineBridge") >>)
  \o (IF version >= 7 THEN << Lc("zAxisVehicles", "ZAxisVehicle") >> ELSE <<>>)
  \o << Lc("vehicles", "Vehicle"), Lc("vehicleStopTriggers", "VehicleStopTrigger") >>
  \o (IF version < 20 THEN << Lc("themeObjects_OBSOLETE", "ThemeObject") >> ELSE <<>>)
  \o << Lc("eventTimelines", "EventTimeline"), Lc("checkpoints", "Checkpoint"),
        Lc("terrainStretches", "TerrainStretch"), Lc("platforms", "Platform"),
        Lc("ramps", "Ramp") >>
  \o (IF version < 5 THEN << Lc("phases", "Phase") >> ELSE <<>>)
  \o << Lc("vehicleRestartPhases", "VehicleRestartPhase"),
        Lc("flyingObjects", "FlyingObject"), Lc("rocks", "Rock"),
        Lc("waterBlocks", "WaterBlock") >>
  \o (IF version < 5 THEN << DL("garbage", "Garbage") >> ELSE <<>>)
  \o << R("budget", "Budget"), R("settings", "Settings") >>
  \o (IF version >= 9 THEN << Lc("customShapes", "CustomShape") >> ELSE <<>>)
  \o (IF version >= 15 THEN << R("workshop", "Workshop") >> ELSE <<>>)
  \o (IF version >= 17 THEN << Lc("supportPillars", "SupportPillar") >> ELSE <<>>)
  \o (IF version >= 18 THEN << Lc("pillars", "Pillar") >> ELSE <<>>)

(* SimpleBridgeDeserializer: the fields its deserializeBridge reads.  Edges *)
(* and phases are read into locals that are never pushed to the bridge.     *)

SimpleBridgeEdge ==
  << F("material_type", "i32"), F("node_a_guid", "str"), F("node_b_guid", "str"),
     F("joint_a_part", "i32"), F("joint_b_part", "i32") >>

SimpleBridgePhase(version) ==
  << F("hydraulics_phase_guid", "str"), L("piston_guids", "str"),
     IF version > 2 THEN L("bridge_split_joints", "SplitJoint")
                    ELSE DL("garbage_strings", "str") >>
  \o (IF version > 9 THEN << F("disable_new_additions", "bool") >> ELSE <<>>)

SimpleBridgeBody(version) ==
  IF version < 2 THEN <<>>
  ELSE << Lc("joints", "Joint"), DLc("edges", "SimpleBridgeEdge") >>
    \o (IF version >= 7 THEN << Lc("springs", "Spring") >> ELSE <<>>)
    \o << Lc("pistons", "Piston"), DLc("phases", "SimpleBridgePhase") >>
    \o (IF version = 5 THEN << DL("garbage_v5", "str") >> ELSE <<>>)
    \o (IF version >= 6 THEN << Lc("anchors", "Anchor") >> ELSE <<>>)
    \o (IF version >= 4 /\ version < 9 THEN << D("garbage_bool", "bool") >> ELSE <<>>)

(* Serializer: the fields each loop body or function writes, in order.  *)
(* lit32 writes the int32 constant sub whatever the Layout holds.       *)

Lit(n, v) == [n |-> n, k |-> "lit32", sub |-> v, keep |-> FALSE]

\* the fields one loop body or record of the Serializer writes, in order
SerializerFields(e) ==
  CASE e = "SerAnchor" ->
         << F("pos", "vec3"), F("is_anchor", "bool"), F("is_split", "bool"), F("guid", "str") >>
    [] e = "SerHydraulicPhase" ->
         << F("time_delay", "f32"), F("guid", "str") >>
    [] e = "SerBridgeJoint" ->
         << F("pos", "vec3"), F("is_anchor", "bool"), F("is_split", "bool"), F("guid", "str") >>
    [] e = "SerBridgeEdge" ->
         << F("material_type", "i32"), F("node_a_guid", "str"), F("node_b_guid", "str"),
            F("joint_a_part", "i32"), F("joint_b_part", "i32") >>
    [] e = "SerBridgeSpring" ->
         << F("normalized_value", "f32"), F("node_a_guid", "str"), F("node_b_guid", "str"),
            F("guid", "str") >>
    [] e = "SerPiston" ->
         << F("normalized_value", "f32"), F("node_a_guid", "str"), F("node_b_guid", "str"),
            F("guid", "str") >>
    [] e = "SerBridgeSplitJoint" ->
         << F("guid", "str"), F("state", "i32") >>
    [] e = "SerHydraulicsControllerPhase" ->
         << F("hydraulics_phase_guid", "str"), L("piston_guids", "str"),
            L("bridge_split_joints", "SerBridgeSplitJoint"), F("disable_new_additions", "bool") >>
    [] e = "SerBridgeAnchor" ->
         << F("pos", "vec3"), F("is_anchor", "bool"), F("is_split", "bool"), F("guid", "str") >>
    [] e = "SerZAxisVehicle" ->
         << F("pos", "vec2"), F("prefab_name", "str"), F("guid", "str"), F("time_delay", "f32"),
            F("speed", "f32"), F("rot", "quat"), F("rotation_degrees", "f32") >>
    [] e = "SerVehicle" ->
         \* checkpoint_guids is the list of the vehicle findVehicleByGuid returns
         << F("display_name", "str"), F("pos", "vec2"), F("rot", "quat"),
            F("prefab_name", "str"), F("target_speed", "f32"), F("mass", "f32"),
            F("braking_force_multiplier", "f32"), F("strength_method", "i32"),
            F("acceleration", "f32"), F("max_slope", "f32"), F("desired_acceleration", "f32"),
            F("shocks_multiplier", "f32"), F("rotation_degrees", "f32"), F("time_delay", "f32"),
            F("idle_on_downhill", "bool"), F("flipped", "bool"), F("ordered_checkpoints", "bool"),
            F("guid", "str"), L("checkpoint_guids", "str") >>
    [] e = "SerVehicleStopTrigger" ->
         << F("pos", "vec2"), F("rot", "quat"), F("height", "f32"), F("rotation_degrees", "f32"),
            F("flipped", "bool"), F("prefab_name", "str"), F("stop_vehicle_guid", "str") >>
    [] e = "SerEventUnit" ->
         << F("guid", "str") >>
    [] e = "SerEventStage" ->
         << L("units", "SerEventUnit") >>
    [] e = "SerEventTimeline" ->
         << F("checkpoint_guid", "str"), L("stages", "SerEventStage") >>
    [] e = "SerCheckpoint" ->
         << F("pos", "vec2"), F("prefab_name", "str"), F("vehicle_guid", "str"),
            F("vehicle_restart_phase_guid", "str"), F("trigger_timeline", "bool"),
            F("stop_vehicle", "bool"), F("reverse_vehicle_on_restart", "bool"), F("guid", "str") >>
    [] e = "SerTerrainStretch" ->
         << F("pos", "vec3"), F("prefab_name", "str"), F("height_added", "f32"),
            F("right_edge_water_height", "f32"), F("terrain_island_type", "i32"),
            F("variant_index", "i32"), F("flipped", "bool"), F("lock_position", "bool") >>
    [] e = "SerPlatform" ->
         << F("pos", "vec2"), F("width", "f32"), F("height", "f32"), F("flipped", "bool"),
            F("solid", "bool") >>
    [] e = "SerRamp" ->
         << F("pos", "vec2"), L("control_points", "vec2"), F("height", "f32"),
            F("num_segments", "i32"), F("spline_type", "i32"), F("flipped_vertical", "bool"),
            F("flipped_horizontal", "bool"), F("hide_legs", "bool"), F("flipped_legs", "bool"),
            L("line_points", "vec2") >>
    [] e = "SerVehicleRestartPhase" ->
         << F("time_delay", "f32"), F("guid", "str"), F("vehicle_guid", "str") >>
    [] e = "SerFlyingObject" ->
         << F("pos", "vec3"), F("scale", "vec3"), F("prefab_name", "str") >>
    [] e = "SerRock" ->
         << F("pos", "vec3"), F("scale", "vec3"), F("prefab_name", "str"), F("flipped", "bool") >>
    [] e = "SerWaterBlock" ->
         << F("pos", "vec3"), F("width", "f32"), F("height", "f32"), F("lock_position", "bool") >>
    [] e = "SerBudget" ->
         << F("cash", "i32"), F("road", "i32"), F("wood", "i32"), F("steel", "i32"),
            F("hydraulics", "i32"), F("rope", "i32"), F("cable", "i32"), F("spring", "i32"),
            F("bungee_rope", "i32"), F("allow_wood", "bool"), F("allow_steel", "bool"),
            F("allow_hydraulics", "bool"), F("allow_rope", "bool"), F("allow_cable", "bool"),
            F("allow_spring", "bool"), F("allow_reinforced_road", "bool") >>
    [] e = "SerSettings" ->
         << F("hydraulics_controller_enabled", "bool"), F("unbreakable", "bool") >>
    [] e = "SerCustomShape" ->
         << F("pos", "vec3"), F("rot", "quat"), F("scale", "vec3"), F("flipped", "bool"),
            F("dynamic", "bool"), F("collides_with_road", "bool"), F("collides_with_nodes", "bool"),
            F("collides_with_split_nodes", "bool"), F("rotation_degrees", "f32"),
            F("color", "color"), F("mass", "f32"), F("bounciness", "f32"),
            F("pin_motor_strength", "f32"), F("pin_target_velocity", "f32"),
            L("points_local_space", "vec2"), L("static_pins", "vec3"),
            L("dynamic_anchor_guids", "str") >>
    [] e = "SerWorkshop" ->
         << F("id", "str"), F("leaderboard_id", "str"), F("title", "str"),
            F("description", "str"), F("autoplay", "bool"), L("tags", "str") >>
    [] e = "SerSupportPillar" ->
         << F("pos", "vec3"), F("scale", "vec3"), F("prefab_name", "str") >>
    [] e = "SerPillar" ->
         << F("pos", "vec3"), F("height", "f32"), F("prefab_name", "str") >>

\* the fields before the bridge, the version written being the one stored
serializePreBridgeBinary_stored ==
  << F("version", "i32"), F("stubKey", "str"),
     L("anchors", "SerAnchor"), L("phases", "SerHydraulicPhase") >>

\* the fields before the bridge, the version written with the sign of a
\* modded file
serializePreBridgeBinary_negated ==
  << Lit("version", -MAX_VERSION), F("stubKey", "str"),
     L("anchors", "SerAnchor"), L("phases", "SerHydraulicPhase") >>

\* Serializer::serializePreBridgeBinary
serializePreBridgeBinary ==
  << Lit("version", MAX_VERSION), F("stubKey", "str"),
     L("anchors", "SerAnchor"), L("phases", "SerHydraulicPhase") >>

serializeBridgeBinary ==
  << Lit("version", MAX_BRIDGE_VERSION), L("joints", "SerBridgeJoint"),
     L("edges", "SerBridgeEdge"), L("springs", "SerBridgeSpring"),
     L("pistons", "SerPiston"), L("phases", "SerHydraulicsControllerPhase"),
     L("anchors", "SerBridgeAnchor") >>

serializePostBridgeBinary ==
  << L("zAxisVehicles", "SerZAxisVehicle"), L("vehicles", "SerVehicle"),
     L("vehicleStopTriggers", "SerVehicleStopTrigger"),
     L("eventTimelines", "SerEventTimeline"), L("checkpoints", "SerCheckpoint"),
     L("terrainStretches", "SerTerrainStretch"), L("platforms", "SerPlatform"),
     L("ramps", "SerRamp"), L("vehicleRestartPhases", "SerVehicleRestartPhase"),
     L("flyingObjects", "SerFlyingObject"), L("rocks", "SerRock"),
     L("waterBlocks", "SerWaterBlock"), R("budget", "SerBudget"),
     R("settings", "SerSettings"), L("customShapes", "SerCustomShape"),
     R("workshop", "SerWorkshop"), L("supportPillars", "SerSupportPillar"),
     L("pillars", "SerPillar") >>

-----------------------------------------------------------------------------
(* The generic field reader: what every deserialize function does with its *)
(* field list, in order, on (stream, reader).                              *)

\* the field list of an element record, for the version in force
ElemFields(e, version) ==
  CASE e = "Anchor" ->
         << F("pos", "vec3"), F("is_anchor", "bool"), F("is_split", "bool"), F("guid", "str") >>
    [] e = "Phase" ->
         << F("time_delay", "f32"), F("guid", "str") >>
    [] e = "Joint" ->
         << F("pos", "vec3"), F("is_anchor", "bool"), F("is_split", "bool"), F("guid", "str") >>
    [] e = "Edge" -> deserializeEdge(version)
    [] e = "Spring" ->
         << F("normalized_value", "f32"), F("node_a_guid", "str"), F("node_b_guid", "str"),
         F("guid", "str") >>
    [] e = "Piston" -> deserializePiston(version)
    [] e = "SplitJoint" ->
         << F("guid", "str"), F("state", "i32") >>
    [] e = "HydraulicControllerPhase" -> deserializeHydraulicControllerPhase(version)
    [] e = "ZAxisVehicle" -> deserializeZAxisVehicle(version)
    [] e = "Vehicle" ->
         << F("display_name", "str"), F("pos", "vec2"), F("rot", "quat"),
         F("prefab_name", "str"), F("target_speed", "f32"), F("mass", "f32"),
         F("braking_force_multiplier", "f32"), F("strength_method", "i32"),
         F("acceleration", "f32"), F("max_slope", "f32"), F("desired_acceleration", "f32"),
         F("shocks_multiplier", "f32"), F("rotation_degrees", "f32"), F("time_delay", "f32"),
         F("idle_on_downhill", "bool"), F("flipped", "bool"), F("ordered_checkpoints", "bool"),
         F("guid", "str"), L("checkpoint_guids", "str") >>
    [] e = "VehicleStopTrigger" ->
         << F("pos", "vec2"), F("rot", "quat"), F("height", "f32"), F("rotation_degrees", "f32"),
         F("flipped", "bool"), F("prefab_name", "str"), F("stop_vehicle_guid", "str") >>
    [] e = "ThemeObject" ->
         << F("pos", "vec2"), F("prefab_name", "str"), F("unknown_value", "bool") >>
    [] e = "EventUnit" -> deserializeEventUnit(version)
    [] e = "EventStage" ->
         << L("units", "EventUnit") >>
    [] e = "EventTimeline" ->
         << F("checkpoint_guid", "str"), L("stages", "EventStage") >>
    [] e = "Checkpoint" ->
         << F("pos", "vec2"), F("prefab_name", "str"), F("vehicle_guid", "str"),
         F("vehicle_restart_phase_guid", "str"), F("trigger_timeline", "bool"),
         F("stop_vehicle", "bool"), F("reverse_vehicle_on_restart", "bool"), F("guid", "str") >>
    [] e = "Platform" -> deserializePlatform(version)
    [] e = "TerrainStretch" -> deserializeTerrainStretch(version)
    [] e = "Ramp" -> deserializeRamp(version)
    [] e = "VehicleRestartPhase" ->
         << F("time_delay", "f32"), F("guid", "str"), F("vehicle_guid", "str") >>
    [] e = "FlyingObject" ->
         << F("pos", "vec3"), F("scale", "vec3"), F("prefab_name", "str") >>
    [] e = "Rock" ->
         << F("pos", "vec3"), F("scale", "vec3"), F("prefab_name", "str"), F("flipped", "bool") >>
    [] e = "WaterBlock" -> deserializeWaterBlock(version)
    [] e = "CustomShape" -> deserializeCustomShape(version)
    [] e = "SupportPillar" ->
         << F("pos", "vec3"), F("scale", "vec3"), F("prefab_name", "str") >>
    [] e = "Pillar" ->
         << F("pos", "vec3"), F("height", "f32"), F("prefab_name", "str") >>
    [] e = "Garbage" -> garbageEntry
    [] e = "Budget" ->
         << F("cash", "i32cash"), F("road", "i32"), F("wood", "i32"), F("steel", "i32"),
         F("hydraulics", "i32"), F("rope", "i32"), F("cable", "i32"), F("spring", "i32"),
         F("bungee_rope", "i32"), F("allow_wood", "bool"), F("allow_steel", "bool"),
         F("allow_hydraulics", "bool"), F("allow_rope", "bool"), F("allow_cable", "bool"),
         F("allow_spring", "bool"), F("allow_reinforced_road", "bool") >>
    [] e = "Settings" ->
         << F("hydraulics_controller_enabled", "bool"), F("unbreakable", "bool") >>
    [] e = "Workshop" -> deserializeWorkshop(version)
    [] e = "InlineBridge" -> inlineBridge
    [] e = "InlineEdge" -> deserializeEdge(0)
    [] e = "InlinePiston" -> deserializePiston(0)
    [] e = "SimpleBridgeEdge" -> SimpleBridgeEdge
    [] e = "SimpleBridgePhase" -> SimpleBridgePhase(version)
    [] OTHER -> SerializerFields(e)

\* one value of a primitive kind: [v, st]
ReadPrim(k, s, st) ==
  CASE k = "i16" -> readInt16(s, st)
    [] k = "i32" -> readInt32(s, st)
    [] k = "i32cash" -> LET r == readInt32(s, st)
                        IN  [v |-> r.v,
                             st |-> IF r.st.ok
                                      THEN ensureReasonable(r.st, r.v, 0, 100000000,
                                                            0, 100000000)
                                      ELSE r.st]
    [] k = "f32" -> readFloat(s, st)
    [] k = "bool" -> readBool(s, st)
    [] k = "str" -> readString(s, st)
    [] k = "strNE" -> readString(s, st)
    [] k = "vec2" -> readVec2(s, st)
    [] k = "vec3" -> readVec3(s, st)
    [] k = "quat" -> readQuaternion(s, st)
    [] k = "color" -> readColor(s, st)
    [] k = "f32abs" -> LET r == readFloat(s, st) IN [v |-> Abs(r.v), st |-> r.st]
    [] k = "f32fix" -> LET r == readFloat(s, st)
                       IN  [v |-> fixPistonNormalizedValue(r.v), st |-> r.st]
    [] k = "vec3pin" -> LET r == readVec3(s, st)
                        IN  [v |-> IF r.st.ok THEN <<r.v[1], r.v[2], StaticPinZ>> ELSE r.v,
                             st |-> r.st]

EmptyRec == [x \in {} |-> 0]

\* A record or a list is read into an accumulator [st, v, tr]: the reader, the
\* members (or elements) stored so far, the trace so far.  Field lists are
\* walked by halving the range and element lists in blocks of doubling length,
\* which keeps the evaluation shallow; the order of the reads is that of the
\* code, and nothing is read once the reader has halted.
RECURSIVE ReadFrom(_, _, _, _, _, _)
RECURSIVE ReadList(_, _, _, _, _, _)

\* the trace of one read at offset p: nothing if the read failed
Entry(n, k, p, ok) == IF ok THEN << <<n, k, p>> >> ELSE <<>>

\* a whole record read at st: [st, v, tr]
ReadFields(fs, version, s, st) ==
  ReadFrom(fs, 1, Len(fs), version, s, [st |-> st, v |-> EmptyRec, tr |-> <<>>])

\* the reader after Utils::ensureReasonable and U::intc on the bridge version c
BridgeVersionChecked(c) ==
  IF c.st.ok /\ ~ensureReasonable(c.st, c.v, 0, 100, 0, 50).ab
    THEN intc(ensureReasonable(c.st, c.v, 0, 100, 0, 50), c.v)
  ELSE IF c.st.ok THEN ensureReasonable(c.st, c.v, 0, 100, 0, 50)
  ELSE c.st

\* deserializeBridge after the version c, which was read at offset p after
\* the trace tr
BridgeAfterVersion(s, p, tr, c) ==
  ReadFrom(deserializeBridgeBody(c.v), 1, Len(deserializeBridgeBody(c.v)), c.v, s,
           [st |-> BridgeVersionChecked(c), v |-> ("version" :> c.v),
            tr |-> tr \o Entry("version", "i32", p, c.st.ok)])

\* Deserializer::deserializeBridge: [st, v, tr]
deserializeBridge(s, st) == BridgeAfterVersion(s, st.p, <<>>, readInt32(s, st))

\* the primitive r read at offset p as an element of wire type k
Traced(k, p, tr, r) == [st |-> r.st, v |-> r.v, tr |-> tr \o Entry("", k, p, r.st.ok)]

\* one element of a list read at st after the trace tr: [st, v, tr]
ReadElem(e, version, s, st, tr) ==
  IF e \in PrimKinds
    THEN Traced(WireKind(e), st.p, tr, ReadPrim(e, s, st))
    ELSE ReadFrom(ElemFields(e, version), 1, Len(ElemFields(e, version)), version, s,
                  [st |-> st, v |-> EmptyRec, tr |-> tr])

\* where the loop over lo..hi is split: the blocks double in length, and a
\* block is halved
BlockEnd(lo, hi) ==
  lo + (IF lo - 1 < (hi - lo) \div 2 THEN lo - 1 ELSE (hi - lo) \div 2)

\* push_back(r) on the elements acc, unless the read halted
Push(acc, r) ==
  [st |-> r.st, v |-> IF Halted(r.st) THEN acc.v ELSE Append(acc.v, r.v), tr |-> r.tr]

\* for (i = lo; i <= hi; i++) push_back(read element), after the elements acc
ReadList(e, version, s, lo, hi, acc) ==
  CASE acc.st.ab -> acc
    [] ~acc.st.ok -> acc
    [] lo > hi -> acc
    [] lo = hi -> Push(acc, ReadElem(e, version, s, acc.st, acc.tr))
    [] OTHER -> ReadList(e, version, s, BlockEnd(lo, hi) + 1, hi,
                         ReadList(e, version, s, lo, BlockEnd(lo, hi), acc))

\* the value r read for field f after the members acc: bound to the member f
\* names if it is stored; a later field overwrites an earlier one
Stored(f, acc, r) ==
  [st |-> r.st,
   v |-> IF f.keep /\ ~Halted(r.st) THEN (f.n :> r.v) @@ acc.v ELSE acc.v,
   tr |-> r.tr]

\* the primitive r read for field f; an empty strNE is not stored
StoredPrim(f, acc, r) ==
  [st |-> r.st,
   v |-> IF f.keep /\ r.st.ok /\ (f.k = "strNE" => r.v # <<>>)
           THEN (f.n :> r.v) @@ acc.v ELSE acc.v,
   tr |-> acc.tr \o Entry(f.n, WireKind(f.k), acc.st.p, r.st.ok)]

\* a counted list after its count c: U::intc on the count (listc), then the
\* loop
ListAfterCount(f, version, s, acc, c) ==
  Stored(f, acc,
    ReadList(f.sub, version, s, 1, c.v,
             [st |-> IF f.k = "listc" /\ c.st.ok THEN intc(c.st, c.v) ELSE c.st,
              v |-> <<>>,
              tr |-> acc.tr \o Entry(f.n, "count", acc.st.p, c.st.ok)]))

\* one field f read after the members acc: [st, v, tr]
ReadField(f, version, s, acc) ==
  CASE f.k = "const" -> [acc EXCEPT !.v = (f.n :> f.sub) @@ @]
    [] f.k = "bridge" ->
         Stored(f, acc, BridgeAfterVersion(s, acc.st.p, acc.tr, readInt32(s, acc.st)))
    [] f.k = "rec" -> Stored(f, acc, ReadElem(f.sub, version, s, acc.st, acc.tr))
    [] f.k \in {"list", "listc"} ->
         ListAfterCount(f, version, s, acc, readInt32(s, acc.st))
    [] OTHER -> StoredPrim(f, acc, ReadPrim(f.k, s, acc.st))

\* fields fs[lo..hi] read in order after the members acc
ReadFrom(fs, lo, hi, version, s, acc) ==
  CASE acc.st.ab -> acc
    [] ~acc.st.ok -> acc
    [] lo > hi -> acc
    [] lo = hi -> ReadField(fs[lo], version, s, acc)
    [] OTHER -> ReadFrom(fs, ((lo + hi) \div 2) + 1, hi, version, s,
                         ReadFrom(fs, lo, (lo + hi) \div 2, version, s, acc))

\* Bridge bridge; every vector empty
EmptyBridge ==
  [joints |-> <<>>, edges |-> <<>>, springs |-> <<>>, pistons |-> <<>>,
   phases |-> <<>>, anchors |-> <<>>]

\* SimpleBridgeDeserializer::deserializeBridge after the version c, which was
\* read at offset p: U::intc on the version; edges and phases stay empty
SimpleBridgeAfterVersion(s, p, c) ==
  ReadFrom(SimpleBridgeBody(c.v), 1, Len(SimpleBridgeBody(c.v)), c.v, s,
           [st |-> IF c.st.ok THEN intc(c.st, c.v) ELSE c.st,
            v |-> ("version" :> c.v) @@ EmptyBridge,
            tr |-> Entry("version", "i32", p, c.st.ok)])

\* SimpleBridgeDeserializer::deserializeBridge on the buffer s: [v, st, tr].
\* A read past the end of the buffer (undefined) ends the run as failed.
SimpleBridgeDeserializer_deserializeBridge(s, st) ==
  SimpleBridgeAfterVersion(s, st.p, readInt32(s, st))

\* the separator of a mod identifier, U+058D in UTF-8
Delimiter == <<214, 141>>

\* std::string::find(delimiter, start): the first index, 0 for npos
RECURSIVE Find(_, _, _)
Find(string, delimiter, start) ==
  IF start + Len(delimiter) - 1 > Len(string) THEN 0
  ELSE IF SubSeq(string, start, start + Len(delimiter) - 1) = delimiter THEN start
  ELSE Find(string, delimiter, start + 1)

RECURSIVE splitFrom(_, _, _)
splitFrom(string, delimiter, start) ==
  LET end == Find(string, delimiter, start)
  IN  IF end = 0 THEN << SubSeq(string, start, Len(string)) >>
      ELSE << SubSeq(string, start, end - 1) >>
           \o splitFrom(string, delimiter, end + Len(delimiter))

splitString(string, delimiter) == splitFrom(string, delimiter, 1)

\* readByteArray taking a length of 0 for an empty array
ByteArrayRead_zeroAllowed(s, n) ==
  IF ~n.st.ok THEN [v |-> <<>>, st |-> n.st]
  ELSE IF n.v < 0 THEN [v |-> <<>>, st |-> [n.st EXCEPT !.ab = TRUE]]
  ELSE IF Avail(s, n.st, n.v)
    THEN [v |-> SubSeq(s, n.st.p + 1, n.st.p + n.v), st |-> Adv(n.st, n.v)]
    ELSE [v |-> <<>>, st |-> Fail(s, n.st)]

\* readByteArray after the length n
ByteArrayRead(s, n) ==
  IF ~n.st.ok THEN [v |-> <<>>, st |-> n.st]
  ELSE IF n.v <= 0 THEN [v |-> <<>>, st |-> [n.st EXCEPT !.ab = TRUE]]
  ELSE IF Avail(s, n.st, n.v)
    THEN [v |-> SubSeq(s, n.st.p + 1, n.st.p + n.v), st |-> Adv(n.st, n.v)]
    ELSE [v |-> <<>>, st |-> Fail(s, n.st)]

\* Deserializer::readByteArray: exit(1) unless 0 < length; [v, st]
readByteArray(s, st) == ByteArrayRead(s, readInt32(s, st))

\* the Mod of the parts of an identifier
ModOf(parts) ==
  [name |-> parts[1],
   version |-> IF Len(parts) >= 2 THEN parts[2] ELSE <<>>,
   settings |-> IF Len(parts) >= 3 THEN parts[3] ELSE <<>>]

\* mods.push_back of the identifier r
ModRead(acc, r) ==
  [v |-> IF r.st.ok THEN Append(acc.v, ModOf(splitString(r.v, Delimiter))) ELSE acc.v,
   st |-> r.st]

\* the first loop of deserializePTFModData: count mods; acc is [v, st]
RECURSIVE readMods(_, _, _)
readMods(s, n, acc) ==
  IF n <= 0 \/ Halted(acc.st) THEN acc
  ELSE readMods(s, n - 1, ModRead(acc, readString(s, acc.st)))

\* mod_save_data.push_back of the byte array d read for the identifier parts
ModSaveDataRead(acc, parts, d) ==
  [v |-> IF Halted(d.st) THEN acc.v
         ELSE Append(acc.v, [data |-> d.v, name |-> parts[1],
                             version |-> IF Len(parts) >= 2 THEN parts[2] ELSE <<>>]),
   st |-> d.st]

\* one turn of the second loop that reads a byte array for every identifier
ModSaveDataEntry_payloadAlways(s, acc, r, parts) ==
  IF ~r.st.ok THEN [acc EXCEPT !.st = r.st]
  ELSE ModSaveDataRead(acc, parts, readByteArray(s, r.st))

\* one turn of the second loop after the identifier r, split into parts: an
\* identifier with an empty name is skipped
ModSaveDataEntry(s, acc, r, parts) ==
  IF ~r.st.ok \/ parts[1] = <<>> THEN [acc EXCEPT !.st = r.st]
  ELSE ModSaveDataRead(acc, parts, readByteArray(s, r.st))

\* one turn of the second loop after the identifier r
ModSaveDataIdentified(s, acc, r) ==
  ModSaveDataEntry(s, acc, r, splitString(r.v, Delimiter))

\* the second loop: extraSaveDataCount identifiers, each with a byte array
RECURSIVE readModSaveData(_, _, _)
readModSaveData(s, n, acc) ==
  IF n <= 0 \/ Halted(acc.st) THEN acc
  ELSE readModSaveData(s, n - 1, ModSaveDataIdentified(s, acc, readString(s, acc.st)))

\* the mod data once the second loop d has run
ModSaveDataDone(m, d) == [v |-> [mods |-> m.v, mod_save_data |-> d.v], st |-> d.st]

\* deserializePTFModData after extraSaveDataCount e
ExtraSaveDataCounted(s, m, e) ==
  IF ~e.st.ok \/ e.v = 0
    THEN [v |-> [mods |-> m.v, mod_save_data |-> <<>>], st |-> e.st]
    ELSE ModSaveDataDone(m, readModSaveData(s, e.v, [v |-> <<>>, st |-> intc(e.st, e.v)]))

\* deserializePTFModData after the first loop m: the file may end here
ModsRead(s, m) ==
  IF Halted(m.st) \/ m.st.p = Len(s)
    THEN [v |-> [mods |-> m.v, mod_save_data |-> <<>>], st |-> m.st]
    ELSE ExtraSaveDataCounted(s, m, readInt32(s, m.st))

\* deserializePTFModData after the mod count c
ModsCounted(s, c) ==
  ModsRead(s, readMods(s, c.v, [v |-> <<>>, st |-> IF c.st.ok THEN intc(c.st, c.v) ELSE c.st]))

\* Deserializer::deserializePTFModData: [v, st]
deserializePTFModData(s, st) == ModsCounted(s, readInt16(s, st))

\* version = -version on an int: the outcomes of the build.  Negating INT_MIN
\* overflows (undefined): the value wraps to INT_MIN, or the program traps.
Negate(version) ==
  IF version = MinInt32
    THEN {[v |-> MinInt32, trap |-> FALSE], [v |-> 0, trap |-> TRUE]}
    ELSE {[v |-> -version, trap |-> FALSE]}

\* Deserializer::getVersion on the raw word: the set of [version, isModded, trap]
getVersion(raw) ==
  IF raw < 0
    THEN {[version |-> o.v, isModded |-> TRUE, trap |-> o.trap] : o \in Negate(raw)}
    ELSE {[version |-> raw, isModded |-> FALSE, trap |-> FALSE]}

\* Serializer::findVehicleByGuid: the first vehicle with that guid
findVehicleByGuid(vehicles, guid) ==
  vehicles[CHOOSE i \in 1..Len(vehicles) :
             /\ vehicles[i].guid = guid
             /\ \A j \in 1..(i - 1) : vehicles[j].guid # guid]

-----------------------------------------------------------------------------
(* Serializer primitives (bytes appended to the output file) and the        *)
(* generic field writer: what a serialize function does with its field list. *)

writeInt32(value) == LE32(value)

writeUInt16(value) == LE16(value)

\* writeUInt16((short)value.length()) then the characters
writeString(value) == writeUInt16(Len(value) % 65536) \o value

writeFloat(value) == LE32(value)

writeBool(value) == << IF value THEN 1 ELSE 0 >>

writeVector3(value) == writeFloat(value[1]) \o writeFloat(value[2]) \o writeFloat(value[3])

writeVector2(value) == writeFloat(value[1]) \o writeFloat(value[2])

\* (uint8_t)(channel * 255.0f) of a channel that is byte / 255.0f
writeColor(value) == << value[1], value[2], value[3] >>

writeQuaternion(value) ==
  writeFloat(value[1]) \o writeFloat(value[2]) \o writeFloat(value[3])
  \o writeFloat(value[4])

WritePrim(k, v) ==
  CASE k = "i16" -> writeUInt16((v + 65536) % 65536)
    [] k \in {"i32", "i32cash"} -> writeInt32(v)
    [] k \in {"f32", "f32abs", "f32fix"} -> writeFloat(v)
    [] k = "bool" -> writeBool(v)
    [] k \in {"str", "strNE"} -> writeString(v)
    [] k = "vec2" -> writeVector2(v)
    [] k \in {"vec3", "vec3pin"} -> writeVector3(v)
    [] k = "quat" -> writeQuaternion(v)
    [] k = "color" -> writeColor(v)

\* the value-initialized member of a struct (Layout layout{})
ZeroOf(k) ==
  CASE k \in {"i16", "i32", "i32cash", "f32", "f32abs", "f32fix"} -> 0
    [] k = "bool" -> FALSE
    [] k \in {"str", "strNE"} -> <<>>
    [] k = "vec2" -> <<0, 0>>
    [] k \in {"vec3", "vec3pin"} -> <<0, 0, 0>>
    [] k = "quat" -> <<0, 0, 0, 0>>
    [] k = "color" -> <<0, 0, 0, 255>>

\* the number of elements an input file holds in a block the decoder discards
MaxJunk == 1

\* what an input file holds where the decoder discards: a value that is seen
JunkOf(k) ==
  CASE k = "bool" -> TRUE
    [] k \in {"str", "strNE"} -> <<71>>
    [] OTHER -> ZeroOf(k)

\* What is written is [b, tr]: the bytes, and the trace with offsets counted
\* from the first of these bytes.
RECURSIVE WriteField(_, _, _)
RECURSIVE WriteFields(_, _, _)
RECURSIVE Joined(_, _, _)

\* the trace tr of bytes that are written d bytes further on
Shift(tr, d) == [i \in DOMAIN tr |-> <<tr[i][1], tr[i][2], tr[i][3] + d>>]

\* a written, then b
Appended(a, b) == [b |-> a.b \o b.b, tr |-> a.tr \o Shift(b.tr, Len(a.b))]

\* parts[lo..hi] written one after the other, by halving the range
Joined(parts, lo, hi) ==
  CASE lo > hi -> [b |-> <<>>, tr |-> <<>>]
    [] lo = hi -> parts[lo]
    [] OTHER -> Appended(Joined(parts, lo, (lo + hi) \div 2),
                         Joined(parts, ((lo + hi) \div 2) + 1, hi))

\* the parts written one after the other
JoinedAll(parts) == Joined(parts, 1, Len(parts))

\* one element of a list: [b, tr]
WriteElem(e, version, v) ==
  IF e \in PrimKinds
    THEN [b |-> WritePrim(e, v), tr |-> << <<"", WireKind(e), 0>> >>]
    ELSE WriteFields(ElemFields(e, version), version, v)

\* the int32 v written as field n of wire type k: [b, tr]
WriteCount(n, k, v) == [b |-> writeInt32(v), tr |-> << <<n, k, 0>> >>]

\* the count, then for (const auto &x : l) write x: [b, tr]
WriteList(f, version, l) ==
  JoinedAll(<< WriteCount(f.n, "count", Len(l)) >>
            \o [j \in DOMAIN l |-> WriteElem(f.sub, version, l[j])])

\* a bridge: its version, then the fields of that version
WriteBridge(bridge) ==
  JoinedAll(<< WriteCount("version", "i32", bridge.version) >>
            \o [i \in DOMAIN deserializeBridgeBody(bridge.version) |->
                  WriteField(deserializeBridgeBody(bridge.version)[i],
                             bridge.version, bridge)])

\* the list field f of val writes, or the block an input file holds where the
\* decoder discards
ListOf(f, val) ==
  IF f.n \in DOMAIN val /\ f.keep THEN val[f.n]
  ELSE IF f.keep THEN <<>>
  ELSE IF f.sub \in PrimKinds THEN [j \in 1..MaxJunk |-> JunkOf(f.sub)]
  ELSE [j \in 1..MaxJunk |-> EmptyRec]

\* the value the primitive field f of val writes
ValueOf(f, val) ==
  IF f.n \in DOMAIN val /\ f.keep THEN val[f.n]
  ELSE IF f.keep THEN ZeroOf(f.k) ELSE JunkOf(f.k)

\* one field f of val: [b, tr]
WriteField(f, version, val) ==
  CASE f.k = "const" -> [b |-> <<>>, tr |-> <<>>]
    [] f.k = "lit32" -> [b |-> writeInt32(f.sub), tr |-> << <<f.n, "i32", 0>> >>]
    [] f.k = "rec" ->
         WriteElem(f.sub, version, IF f.n \in DOMAIN val THEN val[f.n] ELSE EmptyRec)
    [] f.k = "bridge" -> WriteBridge(val[f.n])
    [] f.k \in {"list", "listc"} -> WriteList(f, version, ListOf(f, val))
    [] OTHER -> [b |-> WritePrim(f.k, ValueOf(f, val)),
                 tr |-> << <<f.n, WireKind(f.k), 0>> >>]

\* the fields fs of val written in order: [b, tr]
WriteFields(fs, version, val) ==
  JoinedAll([i \in DOMAIN fs |-> WriteField(fs[i], version, val)])

-----------------------------------------------------------------------------
(* SlotDeserializer: the tagged-entry reader.  file.get() at end of file    *)
(* returns EOF and sets failbit (ok becomes FALSE, which is defined); a      *)
(* read() that cannot fill its target leaves it indeterminate (ub).          *)

\* the field names deserializeSlot asserts, as bytes
AssertedNames ==
  [m_Version |->
     <<109, 95, 86, 101, 114, 115, 105, 111, 110>>,
   m_PhysicsVersion |->
     <<109, 95, 80, 104, 121, 115, 105, 99, 115, 86, 101, 114, 115, 105, 111, 110>>,
   m_SlotID |->
     <<109, 95, 83, 108, 111, 116, 73, 68>>,
   m_DisplayName |->
     <<109, 95, 68, 105, 115, 112, 108, 97, 121, 78, 97, 109, 101>>,
   m_SlotFilename |->
     <<109, 95, 83, 108, 111, 116, 70, 105, 108, 101, 110, 97, 109, 101>>,
   m_Budget |->
     <<109, 95, 66, 117, 100, 103, 101, 116>>,
   m_LastWriteTimeTicks |->
     <<109, 95, 76, 97, 115, 116, 87, 114, 105, 116, 101, 84, 105, 109, 101, 84, 105, 99, 107, 115>>,
   m_Thumb |->
     <<109, 95, 84, 104, 117, 109, 98>>,
   m_UsingUnlimitedMaterials |->
     <<109, 95, 85, 115, 105, 110, 103, 85, 110, 108, 105, 109, 105, 116, 101, 100, 77, 97, 116, 101, 114, 105, 97, 108, 115>>,
   m_UsingUnlimitedBudget |->
     <<109, 95, 85, 115, 105, 110, 103, 85, 110, 108, 105, 109, 105, 116, 101, 100, 66, 117, 100, 103, 101, 116>>]

\* this->file.get(): [v, st], v = -1 for EOF
Slot_get(s, st) ==
  IF st.ok /\ Avail(s, st, 1) THEN [v |-> s[st.p + 1], st |-> Adv(st, 1)]
  ELSE [v |-> -1, st |-> [st EXCEPT !.ok = FALSE]]

\* SlotDeserializer::readInt
Slot_readInt(s, st) ==
  IF st.ok /\ Avail(s, st, 4)
    THEN [v |-> S32(s[st.p + 1], s[st.p + 2], s[st.p + 3], s[st.p + 4]), st |-> Adv(st, 4)]
    ELSE [v |-> 0, st |-> [st EXCEPT !.ok = FALSE, !.ub = TRUE]]

\* file.read(buffer, n) for n >= 0: [v, st]
Slot_read(s, st, n) ==
  IF st.ok /\ Avail(s, st, n)
    THEN [v |-> SubSeq(s, st.p + 1, st.p + n), st |-> Adv(st, n)]
    ELSE [v |-> <<>>, st |-> [st EXCEPT !.ok = FALSE, !.ub = TRUE]]

\* codecvt_utf8_utf16::to_bytes of UTF-16 code units us[i..]: [v, err]
RECURSIVE to_bytes(_, _)
to_bytes(us, i) ==
  IF i > Len(us) THEN [v |-> <<>>, err |-> FALSE]
  ELSE
    LET u == us[i]
        pair == u >= 55296 /\ u <= 56319 /\ i < Len(us)
                /\ us[i + 1] >= 56320 /\ us[i + 1] <= 57343
        cp == 65536 + (u - 55296) * 1024 + (us[i + 1] - 56320)
        r == to_bytes(us, IF pair THEN i + 2 ELSE i + 1)
        enc == IF u < 128 THEN << u >>
               ELSE IF u < 2048 THEN << 192 + (u \div 64), 128 + (u % 64) >>
               ELSE IF pair
                 THEN << 240 + (cp \div 262144), 128 + ((cp \div 4096) % 64),
                         128 + ((cp \div 64) % 64), 128 + (cp % 64) >>
               ELSE << 224 + (u \div 4096), 128 + ((u \div 64) % 64), 128 + (u % 64) >>
    IN  IF u >= 55296 /\ u <= 57343 /\ ~pair THEN [v |-> <<>>, err |-> TRUE]
        ELSE [v |-> enc \o r.v, err |-> r.err]

\* SlotDeserializer::readString: 0 announces 8-bit characters, 1 UTF-16;
\* a negative length ends in an uncaught exception (ab)
Slot_readString(s, st) ==
  LET num == Slot_get(s, st)
      n == Slot_readInt(s, num.st)
  IN  IF num.v \notin {0, 1} THEN [v |-> <<>>, st |-> num.st]
      ELSE IF n.st.ub THEN [v |-> <<>>, st |-> n.st]
      ELSE IF n.v < 0 THEN [v |-> <<>>, st |-> [n.st EXCEPT !.ab = TRUE]]
      ELSE IF num.v = 0 THEN Slot_read(s, n.st, n.v)
      ELSE LET d == Slot_read(s, n.st, 2 * n.v)
               us == [i \in 1..n.v |-> U16(d.v[2 * i - 1], d.v[2 * i])]
               c == to_bytes(us, 1)
           IN  IF d.st.ub THEN d
               ELSE [v |-> c.v, st |-> IF c.err THEN [d.st EXCEPT !.ab = TRUE] ELSE d.st]

\* the EntryType of a BinaryEntryType discriminant; "exit" where peek exits
EntryTypeOf(c) ==
  CASE c \in {1, 2, 3, 4} -> "StartOfNode"
    [] c = 5 -> "EndOfNodeType"
    [] c = 6 -> "StartOfArrayType"
    [] c = 7 -> "EndOfArrayType"
    [] c = 8 -> "PrimitiveArrayType"
    [] c \in {9, 10} -> "InternalReference"
    [] c \in {11, 12} -> "ExternalReferenceByIndex"
    [] c \in {13, 14} -> "ExternalReferenceByGuid"
    [] c \in 15..30 -> "Integer"
    [] c \in 31..36 -> "FloatingPoint"
    [] c \in 37..40 -> "String"
    [] c \in {41, 42} -> "Guid"
    [] c \in {43, 44} -> "Boolean"
    [] c \in {45, 46} -> "Null"
    [] c \in {47, 48} -> "exit"
    [] c = 49 -> "EndOfStreamType"
    [] c \in {50, 51} -> "ExternalReferenceByString"
    [] OTHER -> "InvalidType"

\* the Named discriminants without NamedExternalReferenceByString
IsNamed_noString(c) == c \in {1, 3} \/ (c \in 9..45 /\ c % 2 = 1)

\* the discriminants whose case reads a name
IsNamed(c) == c \in {1, 3, 50} \/ (c \in 9..45 /\ c % 2 = 1)

\* an entry of discriminant c whose name n was read
NamedEntry(c, n) == [type |-> EntryTypeOf(c), name |-> n.v, st |-> n.st]

\* peekEntryType after the discriminant c
PeekedEntry(s, c) ==
  IF c.v < 0 THEN [type |-> "EndOfStreamType", name |-> <<>>, st |-> c.st]
  ELSE IF EntryTypeOf(c.v) = "exit"
    THEN [type |-> "InvalidType", name |-> <<>>, st |-> [c.st EXCEPT !.ab = TRUE]]
  ELSE IF IsNamed(c.v) THEN NamedEntry(c.v, Slot_readString(s, c.st))
  ELSE [type |-> EntryTypeOf(c.v), name |-> <<>>, st |-> c.st]

\* SlotDeserializer::peekEntryType: [type, name, st]
peekEntryType(s, st) == PeekedEntry(s, Slot_get(s, st))

\* std::getline(ss, item, ',') until it fails: the items of type_name
getlineItems(string) ==
  LET parts == splitString(string, <<44>>)
  IN  IF parts[Len(parts)] = <<>> THEN SubSeq(parts, 1, Len(parts) - 1) ELSE parts

\* the TypeName case of readTypeEntry after the type name: exit(1) unless the
\* name has two items
TypeNameRead(name) ==
  IF name.st.ub \/ name.st.ab THEN name.st
  ELSE IF Len(getlineItems(name.v)) # 2 THEN [name.st EXCEPT !.ab = TRUE]
  ELSE name.st

\* the TypeName case of readTypeEntry after the key
TypeKeyRead(s, key) == TypeNameRead(Slot_readString(s, key.st))

\* readTypeEntry after the discriminant num
TypeEntryRead(s, num) ==
  IF num.v < 0 THEN num.st
  ELSE IF num.v = 47 THEN TypeKeyRead(s, Slot_readInt(s, num.st))
  ELSE IF num.v = 48 THEN num.st
  ELSE [num.st EXCEPT !.ab = TRUE]

\* SlotDeserializer::readTypeEntry: the reader after it
readTypeEntry(s, st) == TypeEntryRead(s, Slot_get(s, st))

\* enterNode after readTypeEntry left the reader ty: the node id is read
NodeTypeRead(s, et, ty) ==
  [type |-> et.type, name |-> et.name,
   st |-> IF ty.ab \/ ty.ub THEN ty ELSE Slot_readInt(s, ty).st]

\* enterNode after the entry et was peeked
NodeEntered(s, et) ==
  IF et.type # "StartOfNode" \/ et.st.ab \/ et.st.ub
    THEN [type |-> et.type, name |-> et.name, st |-> et.st]
    ELSE NodeTypeRead(s, et, readTypeEntry(s, et.st))

\* SlotDeserializer::enterNode: [type, name, st]; nothing is asserted
enterNode(s, st) == NodeEntered(s, peekEntryType(s, st))

\* SlotDeserializer::readBool
Slot_readBool(s, st) ==
  LET c == Slot_get(s, st) IN [v |-> (c.v = 1), st |-> c.st]

\* SlotDeserializer::readLong: eight get() from the low byte up, as its eight
\* bytes; an EOF is -1 and sets every bit from its byte up
RECURSIVE Slot_readLong(_, _, _)
Slot_readLong(s, st, k) ==
  IF k = 0 THEN [v |-> <<>>, st |-> st]
  ELSE LET c == Slot_get(s, st)
           r == Slot_readLong(s, c.st, k - 1)
       IN  [v |-> << IF c.v < 0 THEN 255 ELSE c.v >> \o r.v, st |-> r.st]

\* int * int: the product modulo 2^32 as a signed value (the wrapped outcome)
Mul32(a, b) ==
  LET x == LE32(a)
      y == LE32(b)
      c0 == x[1] * y[1]
      c1 == x[1] * y[2] + x[2] * y[1] + (c0 \div 256)
      c2 == x[1] * y[3] + x[2] * y[2] + x[3] * y[1] + (c1 \div 256)
      c3 == x[1] * y[4] + x[2] * y[3] + x[3] * y[2] + x[4] * y[1] + (c2 \div 256)
  IN  S32(c0 % 256, c1 % 256, c2 % 256, c3 % 256)

\* the product num * num2 of two ints: exact when it fits; otherwise the
\* multiplication overflows (undefined): the wrapped value, or a trap
Multiply(a, b) ==
  LET fits == \/ a = 0 \/ b = 0
              \/ (a # MinInt32 /\ b # MinInt32 /\ Abs(b) <= MaxInt32 \div Abs(a))
  IN  IF fits THEN {[v |-> a * b, trap |-> FALSE]}
      ELSE {[v |-> Mul32(a, b), trap |-> FALSE], [v |-> 0, trap |-> TRUE]}

(* deserializeSlot as its steps in order.  A scalar step peeks an entry,     *)
(* asserts its category and its name, then reads the value; enterNode        *)
(* asserts nothing; array and endOfNode assert the category; thumb asserts   *)
(* the name and branches on Null.                                            *)

SlotField(n, name, type, read, chk) ==
  [kind |-> "scalar", n |-> n, name |-> name, type |-> type, read |-> read, chk |-> chk]

SlotStep(kind, n) ==
  [kind |-> kind, n |-> n, name |-> <<>>, type |-> "", read |-> "", chk |-> ""]

\* the steps with the budget read before the file name
deserializeSlot_budgetFirst ==
  << SlotStep("enterNode", "root"),
     SlotField("version", AssertedNames.m_Version, "Integer", "int", "intc"),
     SlotField("physicsVersion", AssertedNames.m_PhysicsVersion, "Integer", "int", "intc"),
     SlotField("slotId", AssertedNames.m_SlotID, "Integer", "int", "intc"),
     SlotField("displayName", AssertedNames.m_DisplayName, "String", "string", ""),
     SlotField("budget", AssertedNames.m_Budget, "Integer", "int", "budget"),
     SlotField("fileName", AssertedNames.m_SlotFilename, "String", "string", ""),
     SlotField("lastWriteTimeTicks", AssertedNames.m_LastWriteTimeTicks, "Integer", "long", ""),
     SlotStep("enterNode", "bridgeNode"),
     SlotStep("array", "bridge"),
     SlotStep("endOfNode", "bridgeEnd"),
     SlotStep("thumb", "thumbNode"),
     SlotStep("array", "thumbnail"),
     SlotStep("endOfNode", "thumbEnd"),
     SlotField("unlimitedMaterials", AssertedNames.m_UsingUnlimitedMaterials, "Boolean", "bool", ""),
     SlotField("unlimitedBudget", AssertedNames.m_UsingUnlimitedBudget, "Boolean", "bool", ""),
     SlotStep("endOfNode", "end") >>

deserializeSlot ==
  << SlotStep("enterNode", "root"),
     SlotField("version", AssertedNames.m_Version, "Integer", "int", "intc"),
     SlotField("physicsVersion", AssertedNames.m_PhysicsVersion, "Integer", "int", "intc"),
     SlotField("slotId", AssertedNames.m_SlotID, "Integer", "int", "intc"),
     SlotField("displayName", AssertedNames.m_DisplayName, "String", "string", ""),
     SlotField("fileName", AssertedNames.m_SlotFilename, "String", "string", ""),
     SlotField("budget", AssertedNames.m_Budget, "Integer", "int", "budget"),
     SlotField("lastWriteTimeTicks", AssertedNames.m_LastWriteTimeTicks, "Integer", "long", ""),
     SlotStep("enterNode", "bridgeNode"),
     SlotStep("array", "bridge"),
     SlotStep("endOfNode", "bridgeEnd"),
     SlotStep("thumb", "thumbNode"),
     SlotStep("array", "thumbnail"),
     SlotStep("endOfNode", "thumbEnd"),
     SlotField("unlimitedMaterials", AssertedNames.m_UsingUnlimitedMaterials, "Boolean", "bool", ""),
     SlotField("unlimitedBudget", AssertedNames.m_UsingUnlimitedBudget, "Boolean", "bool", ""),
     SlotStep("endOfNode", "end") >>

\* the value of a scalar step: readInt, readString, readLong or readBool
SlotValue(read, s, st) ==
  CASE read = "int" -> Slot_readInt(s, st)
    [] read = "string" -> Slot_readString(s, st)
    [] read = "long" -> Slot_readLong(s, st, 8)
    [] read = "bool" -> Slot_readBool(s, st)

\* the U::intc call that logs a scalar
SlotCheck(chk, st, value) ==
  CASE chk = "intc" -> intc(st, value)
    [] chk = "budget" -> ensureReasonable(st, value, 0, 10000000, 0, 10000000)
    [] OTHER -> st

-----------------------------------------------------------------------------
(* The JSON codec.  dump_json and load_json are straight-line statements    *)
(* and loops over one record type at a time; each is the table of its       *)
(* statements.  J(key, comp, n, i) is json[key] (json[key][comp] when comp   *)
(* is given) against member n (its component i when i > 0; the value itself  *)
(* when n is empty); JL is the same for kind k: list, an array of records    *)
(* of type e that exists even when empty; listo, an array that exists only   *)
(* once an element was pushed; rec, a nested object; null, the null          *)
(* literal; nullfor, null written in the loop over member n; flat, the       *)
(* members of n written into this object.  A json object is a function of   *)
(* its keys, a json array a sequence, json null the string "null"; a        *)
(* number or a string is the value itself (nlohmann::json prints a float    *)
(* with the digits that read back to the same float).                       *)

J(key, comp, n, i) == [key |-> key, comp |-> comp, n |-> n, i |-> i, k |-> "val", e |-> ""]
JL(key, comp, n, k, e) == [key |-> key, comp |-> comp, n |-> n, i |-> 0, k |-> k, e |-> e]

\* dump_json: the statements that fill the json of one record type.  The
\* base64_encoded_data of a ModSaveData is the text of what data points to,
\* which are addresses of the heap (readByteArray), and is left out.
dump_json_fields(e) ==
  CASE e = "Layout" ->
         << J("m_Version", "", "version", 0), J("m_ThemeStubKey", "", "stubKey", 0),
            JL("m_Anchors", "", "anchors", "list", "Anchor"),
            JL("m_UndoGuid", "", "phases", "nullfor", ""),
            JL("m_HydraulicPhases", "", "phases", "list", "Phase"),
            JL("m_Bridge", "", "bridge", "rec", "Bridge"),
            JL("m_ZedAxisVehicles", "", "zAxisVehicles", "list", "ZAxisVehicle"),
            JL("m_Vehicles", "", "vehicles", "list", "Vehicle"),
            JL("m_VehicleStopTriggers", "", "vehicleStopTriggers", "list", "VehicleStopTrigger"),
            JL("m_EventTimelines", "", "eventTimelines", "list", "EventTimeline"),
            JL("m_Checkpoints", "", "checkpoints", "list", "Checkpoint"),
            JL("m_TerrainStretches", "", "terrainStretches", "list", "TerrainStretch"),
            JL("m_Pillars", "", "pillars", "list", "Pillar"),
            JL("m_Platforms", "", "platforms", "list", "Platform"),
            JL("m_Ramps", "", "ramps", "list", "Ramp"),
            JL("m_VehicleRestartPhases", "", "vehicleRestartPhases", "list", "VehicleRestartPhase"),
            JL("m_FlyingObjects", "", "flyingObjects", "list", "FlyingObject"),
            JL("m_Rocks", "", "rocks", "list", "Rock"),
            JL("m_SupportPillars", "", "supportPillars", "list", "SupportPillar"),
            JL("m_WaterBlocks", "", "waterBlocks", "list", "WaterBlock"),
            JL("m_CustomShapes", "", "customShapes", "list", "CustomShape"),
            JL("m_Budget", "", "budget", "rec", "Budget"),
            JL("m_Settings", "", "settings", "rec", "Settings"),
            JL("m_Workshop", "", "workshop", "rec", "Workshop"),
            JL("", "", "modData", "flat", "ModData") >>
    [] e = "Bridge" ->
         << J("m_Version", "", "version", 0),
            JL("m_BridgeJoints", "", "joints", "list", "Joint"),
            JL("m_BridgeEdges", "", "edges", "list", "Edge"),
            JL("m_BridgeSprings", "", "springs", "list", "Spring"),
            JL("m_Pistons", "", "pistons", "list", "Piston"),
            JL("m_HydraulicsController", "m_Phases", "phases", "list", "HydraulicControllerPhase"),
            JL("m_Anchors", "", "anchors", "list", "Anchor") >>
    [] e \in {"Anchor", "Joint"} ->
         << J("m_Pos", "x", "pos", 1), J("m_Pos", "y", "pos", 2), J("m_Pos", "z", "pos", 3),
            J("m_IsAnchor", "", "is_anchor", 0), J("m_IsSplit", "", "is_split", 0),
            J("m_Guid", "", "guid", 0) >>
    [] e = "Phase" ->
         << J("m_TimeDelaySeconds", "", "time_delay", 0), J("m_Guid", "", "guid", 0) >>
    [] e = "Edge" ->
         << J("m_Material", "", "material_type", 0), J("m_NodeA_Guid", "", "node_a_guid", 0),
            J("m_NodeB_Guid", "", "node_b_guid", 0),
            J("m_JointAPart", "", "joint_a_part", 0),
            J("m_JointBPart", "", "joint_b_part", 0) >>
    [] e = "Spring" ->
         << J("m_Guid", "", "guid", 0), J("m_NodeA_Guid", "", "node_a_guid", 0),
            J("m_NodeB_Guid", "", "node_b_guid", 0),
            J("m_NormalizedValue", "", "normalized_value", 0) >>
    [] e = "Piston" ->
         << J("m_Guid", "", "guid", 0), J("m_NodeA_Guid", "", "node_a_guid", 0),
            J("m_NodeB_Guid", "", "node_b_guid", 0),
            J("m_NormalizedValue", "", "normalized_value", 0) >>
    [] e = "HydraulicControllerPhase" ->
         << J("m_HydraulicsPhaseGuid", "", "hydraulics_phase_guid", 0),
            J("m_PistonGuids", "", "piston_guids", 0),
            JL("m_BridgeSplitJoints", "", "bridge_split_joints", "list", "SplitJoint"),
            J("m_DisableNewAdditions", "", "disable_new_additions", 0) >>
    [] e = "SplitJoint" ->
         << J("m_BridgeJointGuid", "", "guid", 0), J("m_SplitJointState", "", "state", 0) >>
    [] e = "ZAxisVehicle" ->
         << J("m_Guid", "", "guid", 0), J("m_Pos", "x", "pos", 1), J("m_Pos", "y", "pos", 2),
            J("m_TimeDelaySeconds", "", "time_delay", 0),
            J("m_PrefabName", "", "prefab_name", 0), J("m_Speed", "", "speed", 0),
            J("m_Rot", "x", "rot", 1), J("m_Rot", "y", "rot", 2), J("m_Rot", "z", "rot", 3),
            J("m_Rot", "w", "rot", 4), J("m_RotationDegrees", "", "rotation_degrees", 0) >>
    [] e = "Vehicle" ->
         << J("m_Guid", "", "guid", 0), J("m_Pos", "x", "pos", 1), J("m_Pos", "y", "pos", 2),
            J("m_Rot", "x", "rot", 1), J("m_Rot", "y", "rot", 2), J("m_Rot", "z", "rot", 3),
            J("m_Rot", "w", "rot", 4), J("m_PrefabName", "", "prefab_name", 0),
            J("m_TimeDelaySeconds", "", "time_delay", 0),
            J("m_PrefabName", "", "prefab_name", 0),
            J("m_CheckpointGuids", "", "checkpoint_guids", 0),
            J("m_Acceleration", "", "acceleration", 0), J("m_Mass", "", "mass", 0),
            J("m_BrakingForceMultiplier", "", "braking_force_multiplier", 0),
            J("m_StrengthMethod", "", "strength_method", 0),
            J("m_MaxSlope", "", "max_slope", 0),
            J("m_DesiredAcceleration", "", "desired_acceleration", 0),
            J("m_IdleOnDownhill", "", "idle_on_downhill", 0),
            J("m_Flipped", "", "flipped", 0),
            J("m_OrderedCheckpoints", "", "ordered_checkpoints", 0),
            J("m_DisplayName", "", "display_name", 0),
            J("m_RotationDegrees", "", "rotation_degrees", 0),
            J("m_TargetSpeed", "", "target_speed", 0), JL("m_UndoGuid", "", "", "null", "") >>
    [] e = "VehicleStopTrigger" ->
         << J("m_Pos", "x", "pos", 1), J("m_Pos", "y", "pos", 2), J("m_Rot", "x", "rot", 1),
            J("m_Rot", "y", "rot", 2), J("m_Rot", "z", "rot", 3), J("m_Rot", "w", "rot", 4),
            J("m_PrefabName", "", "prefab_name", 0), J("m_Height", "", "height", 0),
            J("m_RotationDegrees", "", "rotation_degrees", 0),
            J("m_StopVehicleGuid", "", "stop_vehicle_guid", 0),
            J("m_Flipped", "", "flipped", 0), JL("m_UndoGuid", "", "", "null", "") >>
    [] e = "EventTimeline" ->
         << J("m_CheckpointGuid", "", "checkpoint_guid", 0),
            JL("m_Stages", "", "stages", "list", "EventStage") >>
    [] e = "EventStage" ->
         << JL("m_Units", "", "units", "listo", "EventUnit") >>
    [] e = "EventUnit" ->
         << J("m_Guid", "", "guid", 0) >>
    [] e = "Checkpoint" ->
         << J("m_Guid", "", "guid", 0), J("m_Pos", "x", "pos", 1), J("m_Pos", "y", "pos", 2),
            J("m_PrefabName", "", "prefab_name", 0),
            J("m_VehicleGuid", "", "vehicle_guid", 0),
            J("m_VehicleRestartPhaseGuid", "", "vehicle_restart_phase_guid", 0),
            J("m_TriggerTimeline", "", "trigger_timeline", 0),
            J("m_StopVehicle", "", "stop_vehicle", 0),
            J("m_ReverseVehicleOnRestart", "", "reverse_vehicle_on_restart", 0),
            JL("m_UndoGuid", "", "", "null", "") >>
    [] e = "TerrainStretch" ->
         << J("m_Pos", "x", "pos", 1), J("m_Pos", "y", "pos", 2), J("m_Pos", "z", "pos", 3),
            J("m_PrefabName", "", "prefab_name", 0),
            J("m_HeightAdded", "", "height_added", 0),
            J("m_RightEdgeWaterHeight", "", "right_edge_water_height", 0),
            J("m_TerrainIslandType", "", "terrain_island_type", 0),
            J("m_VariantIndex", "", "variant_index", 0), J("m_Flipped", "", "flipped", 0),
            J("m_LockPosition", "", "lock_position", 0),
            JL("m_UndoGuid", "", "", "null", "") >>
    [] e = "Pillar" ->
         << J("m_Pos", "x", "pos", 1), J("m_Pos", "y", "pos", 2), J("m_Pos", "z", "pos", 3),
            J("m_PrefabName", "", "prefab_name", 0), J("m_Height", "", "height", 0),
            JL("m_UndoGuid", "", "", "null", "") >>
    [] e = "Platform" ->
         << J("m_Pos", "x", "pos", 1), J("m_Pos", "y", "pos", 2),
            J("m_Height", "", "height", 0), J("m_Width", "", "width", 0),
            J("m_Flipped", "", "flipped", 0), J("m_Solid", "", "solid", 0),
            JL("m_UndoGuid", "", "", "null", "") >>
    [] e = "Ramp" ->
         << J("m_Pos", "x", "pos", 1), J("m_Pos", "y", "pos", 2),
            J("m_Height", "", "height", 0),
            J("m_FlippedVertical", "", "flipped_vertical", 0),
            J("m_FlippedHorizontal", "", "flipped_horizontal", 0),
            J("m_FlippedLegs", "", "flipped_legs", 0), J("m_HideLegs", "", "hide_legs", 0),
            J("m_SplineType", "", "spline_type", 0),
            J("m_NumSegments", "", "num_segments", 0), JL("m_UndoGuid", "", "", "null", ""),
            JL("m_ControlPoints", "", "control_points", "listo", "Vec2"),
            JL("m_LinePoints", "", "line_points", "listo", "Vec2") >>
    [] e = "Vec2" ->
         << J("x", "", "", 1), J("y", "", "", 2) >>
    [] e = "VehicleRestartPhase" ->
         << J("m_Guid", "", "guid", 0), J("m_VehicleGuid", "", "vehicle_guid", 0),
            J("m_TimeDelaySeconds", "", "time_delay", 0),
            JL("m_UndoGuid", "", "", "null", "") >>
    [] e = "FlyingObject" ->
         << J("m_Pos", "x", "pos", 1), J("m_Pos", "y", "pos", 2), J("m_Pos", "z", "pos", 3),
            J("m_Scale", "x", "scale", 1), J("m_Scale", "y", "scale", 2),
            J("m_Scale", "z", "scale", 3), J("m_PrefabName", "", "prefab_name", 0),
            JL("m_UndoGuid", "", "", "null", "") >>
    [] e = "Rock" ->
         << J("m_Pos", "x", "pos", 1), J("m_Pos", "y", "pos", 2), J("m_Pos", "z", "pos", 3),
            J("m_Scale", "x", "scale", 1), J("m_Scale", "y", "scale", 2),
            J("m_Scale", "z", "scale", 3), J("m_PrefabName", "", "prefab_name", 0),
            J("m_Flipped", "", "flipped", 0), JL("m_UndoGuid", "", "", "null", "") >>
    [] e = "SupportPillar" ->
         << J("m_Pos", "x", "pos", 1), J("m_Pos", "y", "pos", 2), J("m_Pos", "z", "pos", 3),
            J("m_Scale", "x", "scale", 1), J("m_Scale", "y", "scale", 2),
            J("m_Scale", "z", "scale", 3), J("m_PrefabName", "", "prefab_name", 0),
            JL("m_UndoGuid", "", "", "null", "") >>
    [] e = "WaterBlock" ->
         << J("m_Pos", "x", "pos", 1), J("m_Pos", "y", "pos", 2), J("m_Pos", "z", "pos", 3),
            J("m_Width", "", "width", 0), J("m_Height", "", "height", 0),
            J("m_LockPosition", "", "lock_position", 0),
            JL("m_UndoGuid", "", "", "null", "") >>
    [] e = "CustomShape" ->
         << J("m_Pos", "x", "pos", 1), J("m_Pos", "y", "pos", 2), J("m_Pos", "z", "pos", 3),
            J("m_Scale", "x", "scale", 1), J("m_Scale", "y", "scale", 2),
            J("m_Scale", "z", "scale", 3), J("m_Rot", "x", "rot", 1),
            J("m_Rot", "y", "rot", 2), J("m_Rot", "z", "rot", 3), J("m_Rot", "w", "rot", 4),
            J("m_Color", "r", "color", 1), J("m_Color", "g", "color", 2),
            J("m_Color", "b", "color", 3), J("m_Color", "a", "color", 4),
            J("m_Flipped", "", "flipped", 0),
            J("m_CollidesWithRoad", "", "collides_with_road", 0),
            J("m_CollidesWithNodes", "", "collides_with_nodes", 0),
            J("m_CollidesWithSplitNodes", "", "collides_with_split_nodes", 0),
            J("m_Dynamic", "", "dynamic", 0),
            J("m_RotationDegrees", "", "rotation_degrees", 0), J("m_Mass", "", "mass", 0),
            J("m_Bounciness", "", "bounciness", 0),
            J("m_PinMotorStrength", "", "pin_motor_strength", 0),
            J("m_PinTargetVelocity", "", "pin_target_velocity", 0),
            JL("m_PointsLocalSpace", "", "points_local_space", "list", "Vec2"),
            JL("m_StaticPins", "", "static_pins", "list", "Vec3"),
            JL("m_DynamicAnchorGuids", "", "dynamic_anchor_guids", "list", "str"),
            JL("m_UndoGuid", "", "", "null", "") >>
    [] e = "Vec3" ->
         << J("x", "", "", 1), J("y", "", "", 2), J("z", "", "", 3) >>
    [] e = "Budget" ->
         << J("m_CashBudget", "", "cash", 0), J("m_RoadBudget", "", "road", 0),
            J("m_WoodBudget", "", "wood", 0), J("m_SteelBudget", "", "steel", 0),
            J("m_HydraulicBudget", "", "hydraulics", 0), J("m_RopeBudget", "", "rope", 0),
            J("m_CableBudget", "", "cable", 0), J("m_SpringBudget", "", "spring", 0),
            J("m_BungieRopeBudget", "", "bungee_rope", 0),
            J("m_AllowWood", "", "allow_wood", 0), J("m_AllowSteel", "", "allow_steel", 0),
            J("m_AllowHydraulic", "", "allow_hydraulics", 0),
            J("m_AllowRope", "", "allow_rope", 0), J("m_AllowCable", "", "allow_cable", 0),
            J("m_AllowSpring", "", "allow_spring", 0),
            J("m_AllowReinforcedRoad", "", "allow_reinforced_road", 0) >>
    [] e = "Settings" ->
         << J("m_HydraulicControllerEnabled", "", "hydraulics_controller_enabled", 0),
            J("m_Unbreakable", "", "unbreakable", 0) >>
    [] e = "Workshop" ->
         << J("m_Id", "", "id", 0), J("m_LeaderboardId", "", "leaderboard_id", 0),
            J("m_Title", "", "title", 0), J("m_Description", "", "description", 0),
            J("m_AutoPlay", "", "autoplay", 0), J("m_Tags", "", "tags", 0) >>
    [] e = "ModData" ->
         << JL("ext_Mods", "", "mods", "list", "Mod"),
            JL("ext_ModSaveData", "", "mod_save_data", "listo", "ModSaveData") >>
    [] e = "Mod" ->
         << J("name", "", "name", 0), J("version", "", "version", 0),
            J("settings", "", "settings", 0) >>
    [] e = "ModSaveData" ->
         << J("name", "", "name", 0), J("version", "", "version", 0) >>

\* load_json: the statements that read the json of one record type
load_json_fields(e) ==
  CASE e = "Layout" ->
         << J("m_Version", "", "version", 0), JL("m_Bridge", "", "bridge", "rec", "Bridge"),
            JL("m_Anchors", "", "anchors", "list", "Anchor"),
            JL("m_Budget", "", "budget", "rec", "Budget"),
            JL("m_EventTimelines", "", "eventTimelines", "list", "EventTimeline"),
            JL("m_HydraulicPhases", "", "phases", "list", "Phase"),
            JL("m_Settings", "", "settings", "rec", "Settings"),
            JL("m_TerrainStretches", "", "terrainStretches", "list", "TerrainStretch"),
            J("m_ThemeStubKey", "", "stubKey", 0),
            JL("m_WaterBlocks", "", "waterBlocks", "list", "WaterBlock"),
            JL("m_Workshop", "", "workshop", "rec", "Workshop"),
            JL("m_ZedAxisVehicles", "", "zAxisVehicles", "list", "ZAxisVehicle"),
            JL("m_Checkpoints", "", "checkpoints", "list", "Checkpoint"),
            JL("m_CustomShapes", "", "customShapes", "list", "CustomShape"),
            JL("m_FlyingObjects", "", "flyingObjects", "list", "FlyingObject"),
            JL("m_Pillars", "", "pillars", "list", "Pillar"),
            JL("m_SupportPillars", "", "supportPillars", "list", "SupportPillar"),
            JL("m_VehicleRestartPhases", "", "vehicleRestartPhases", "list", "VehicleRestartPhase"),
            JL("m_VehicleStopTriggers", "", "vehicleStopTriggers", "list", "VehicleStopTrigger"),
            JL("m_Vehicles", "", "vehicles", "list", "Vehicle"),
            JL("m_Platforms", "", "platforms", "list", "Platform"),
            JL("m_Ramps", "", "ramps", "list", "Ramp"),
            JL("m_Rocks", "", "rocks", "list", "Rock") >>
    [] e = "Bridge" ->
         << JL("m_Anchors", "", "anchors", "list", "Anchor"),
            JL("m_BridgeEdges", "", "edges", "list", "Edge"),
            JL("m_BridgeJoints", "", "joints", "list", "Joint"),
            JL("m_BridgeSprings", "", "springs", "list", "Spring"),
            JL("m_HydraulicsController", "m_Phases", "phases", "list", "HydraulicControllerPhase"),
            JL("m_Pistons", "", "pistons", "list", "Piston"),
            J("m_Version", "", "version", 0) >>
    [] e \in {"Anchor", "Joint"} ->
         << J("m_Pos", "x", "pos", 1), J("m_Pos", "y", "pos", 2), J("m_Pos", "z", "pos", 3),
            J("m_IsAnchor", "", "is_anchor", 0), J("m_IsSplit", "", "is_split", 0),
            J("m_Guid", "", "guid", 0) >>
    [] e = "Phase" ->
         << J("m_Guid", "", "guid", 0), J("m_TimeDelaySeconds", "", "time_delay", 0) >>
    [] e = "Edge" ->
         << J("m_JointAPart", "", "joint_a_part", 0),
            J("m_JointBPart", "", "joint_b_part", 0),
            J("m_Material", "", "material_type", 0), J("m_NodeA_Guid", "", "node_a_guid", 0),
            J("m_NodeB_Guid", "", "node_b_guid", 0) >>
    [] e = "Spring" ->
         << J("m_Guid", "", "guid", 0), J("m_NodeA_Guid", "", "node_a_guid", 0),
            J("m_NodeB_Guid", "", "node_b_guid", 0),
            J("m_NormalizedValue", "", "normalized_value", 0) >>
    [] e = "Piston" ->
         << J("m_Guid", "", "guid", 0), J("m_NodeA_Guid", "", "node_a_guid", 0),
            J("m_NodeB_Guid", "", "node_b_guid", 0),
            J("m_NormalizedValue", "", "normalized_value", 0) >>
    [] e = "HydraulicControllerPhase" ->
         << JL("m_BridgeSplitJoints", "", "bridge_split_joints", "list", "SplitJoint"),
            J("m_HydraulicsPhaseGuid", "", "hydraulics_phase_guid", 0),
            JL("m_PistonGuids", "", "piston_guids", "list", "str"),
            J("m_DisableNewAdditions", "", "disable_new_additions", 0) >>
    [] e = "SplitJoint" ->
         << J("m_BridgeJointGuid", "", "guid", 0), J("m_SplitJointState", "", "state", 0) >>
    [] e = "ZAxisVehicle" ->
         << J("m_Guid", "", "guid", 0), J("m_Pos", "x", "pos", 1), J("m_Pos", "y", "pos", 2),
            J("m_PrefabName", "", "prefab_name", 0), J("m_Speed", "", "speed", 0),
            J("m_TimeDelaySeconds", "", "time_delay", 0), J("m_Rot", "x", "rot", 1),
            J("m_Rot", "y", "rot", 2), J("m_Rot", "z", "rot", 3), J("m_Rot", "w", "rot", 4),
            J("m_RotationDegrees", "", "rotation_degrees", 0) >>
    [] e = "Vehicle" ->
         << J("m_Acceleration", "", "acceleration", 0),
            J("m_BrakingForceMultiplier", "", "braking_force_multiplier", 0),
            JL("m_CheckpointGuids", "", "checkpoint_guids", "list", "str"),
            J("m_DesiredAcceleration", "", "desired_acceleration", 0),
            J("m_DisplayName", "", "display_name", 0), J("m_Flipped", "", "flipped", 0),
            J("m_Guid", "", "guid", 0), J("m_IdleOnDownhill", "", "idle_on_downhill", 0),
            J("m_Mass", "", "mass", 0), J("m_MaxSlope", "", "max_slope", 0),
            J("m_OrderedCheckpoints", "", "ordered_checkpoints", 0),
            J("m_Pos", "x", "pos", 1), J("m_Pos", "y", "pos", 2),
            J("m_PrefabName", "", "prefab_name", 0), J("m_Rot", "x", "rot", 1),
            J("m_Rot", "y", "rot", 2), J("m_Rot", "z", "rot", 3), J("m_Rot", "w", "rot", 4),
            J("m_RotationDegrees", "", "rotation_degrees", 0),
            J("m_StrengthMethod", "", "strength_method", 0),
            J("m_TimeDelaySeconds", "", "time_delay", 0) >>
    [] e = "VehicleStopTrigger" ->
         << J("m_Flipped", "", "flipped", 0), J("m_Height", "", "height", 0),
            J("m_Pos", "x", "pos", 1), J("m_Pos", "y", "pos", 2), J("m_Rot", "x", "rot", 1),
            J("m_Rot", "y", "rot", 2), J("m_Rot", "z", "rot", 3), J("m_Rot", "w", "rot", 4),
            J("m_PrefabName", "", "prefab_name", 0),
            J("m_RotationDegrees", "", "rotation_degrees", 0),
            J("m_StopVehicleGuid", "", "stop_vehicle_guid", 0) >>
    [] e = "EventTimeline" ->
         << J("m_CheckpointGuid", "", "checkpoint_guid", 0),
            JL("m_Stages", "", "stages", "list", "EventStage") >>
    [] e = "EventStage" ->
         << JL("m_Units", "", "units", "list", "EventUnit") >>
    [] e = "EventUnit" ->
         << J("m_Guid", "", "guid", 0) >>
    [] e = "Checkpoint" ->
         << J("m_Pos", "x", "pos", 1), J("m_Pos", "y", "pos", 2),
            J("m_PrefabName", "", "prefab_name", 0),
            J("m_VehicleGuid", "", "vehicle_guid", 0),
            J("m_VehicleRestartPhaseGuid", "", "vehicle_restart_phase_guid", 0),
            J("m_TriggerTimeline", "", "trigger_timeline", 0),
            J("m_StopVehicle", "", "stop_vehicle", 0),
            J("m_ReverseVehicleOnRestart", "", "reverse_vehicle_on_restart", 0),
            J("m_Guid", "", "guid", 0) >>
    [] e = "TerrainStretch" ->
         << J("m_Flipped", "", "flipped", 0), J("m_HeightAdded", "", "height_added", 0),
            J("m_LockPosition", "", "lock_position", 0), J("m_Pos", "x", "pos", 1),
            J("m_Pos", "y", "pos", 2), J("m_Pos", "z", "pos", 3),
            J("m_PrefabName", "", "prefab_name", 0),
            J("m_RightEdgeWaterHeight", "", "right_edge_water_height", 0),
            J("m_TerrainIslandType", "", "terrain_island_type", 0),
            J("m_VariantIndex", "", "variant_index", 0) >>
    [] e = "Pillar" ->
         << J("m_Height", "", "height", 0), J("m_Pos", "x", "pos", 1),
            J("m_Pos", "y", "pos", 2), J("m_Pos", "z", "pos", 3),
            J("m_PrefabName", "", "prefab_name", 0) >>
    [] e = "Platform" ->
         << J("m_Flipped", "", "flipped", 0), J("m_Height", "", "height", 0),
            J("m_Pos", "x", "pos", 1), J("m_Pos", "y", "pos", 2),
            J("m_Solid", "", "solid", 0), J("m_Width", "", "width", 0) >>
    [] e = "Ramp" ->
         << J("m_FlippedVertical", "", "flipped_vertical", 0),
            J("m_FlippedHorizontal", "", "flipped_horizontal", 0),
            J("m_FlippedLegs", "", "flipped_legs", 0), J("m_Height", "", "height", 0),
            J("m_HideLegs", "", "hide_legs", 0), J("m_NumSegments", "", "num_segments", 0),
            J("m_SplineType", "", "spline_type", 0), J("m_Pos", "x", "pos", 1),
            J("m_Pos", "y", "pos", 2), JL("m_LinePoints", "", "line_points", "list", "Vec2"),
            JL("m_ControlPoints", "", "control_points", "list", "Vec2") >>
    [] e = "Vec2" ->
         << J("x", "", "", 1), J("y", "", "", 2) >>
    [] e = "VehicleRestartPhase" ->
         << J("m_Guid", "", "guid", 0), J("m_TimeDelaySeconds", "", "time_delay", 0),
            J("m_VehicleGuid", "", "vehicle_guid", 0) >>
    [] e = "FlyingObject" ->
         << J("m_Pos", "x", "pos", 1), J("m_Pos", "y", "pos", 2), J("m_Pos", "z", "pos", 3),
            J("m_Scale", "x", "scale", 1), J("m_Scale", "y", "scale", 2),
            J("m_Scale", "z", "scale", 3), J("m_PrefabName", "", "prefab_name", 0) >>
    [] e = "Rock" ->
         << J("m_Flipped", "", "flipped", 0), J("m_Pos", "x", "pos", 1),
            J("m_Pos", "y", "pos", 2), J("m_Pos", "z", "pos", 3),
            J("m_PrefabName", "", "prefab_name", 0), J("m_Scale", "x", "scale", 1),
            J("m_Scale", "y", "scale", 2), J("m_Scale", "z", "scale", 3) >>
    [] e = "SupportPillar" ->
         << J("m_Pos", "x", "pos", 1), J("m_Pos", "y", "pos", 2), J("m_Pos", "z", "pos", 3),
            J("m_Scale", "x", "scale", 1), J("m_Scale", "y", "scale", 2),
            J("m_Scale", "z", "scale", 3), J("m_PrefabName", "", "prefab_name", 0) >>
    [] e = "WaterBlock" ->
         << J("m_Height", "", "height", 0), J("m_LockPosition", "", "lock_position", 0),
            J("m_Pos", "x", "pos", 1), J("m_Pos", "y", "pos", 2), J("m_Pos", "z", "pos", 3),
            J("m_Width", "", "width", 0) >>
    [] e = "CustomShape" ->
         << J("m_Bounciness", "", "bounciness", 0),
            J("m_CollidesWithRoad", "", "collides_with_road", 0),
            J("m_CollidesWithNodes", "", "collides_with_nodes", 0),
            J("m_CollidesWithSplitNodes", "", "collides_with_split_nodes", 0),
            J("m_Color", "r", "color", 1), J("m_Color", "g", "color", 2),
            J("m_Color", "b", "color", 3), J("m_Color", "a", "color", 4),
            J("m_Dynamic", "", "dynamic", 0), J("m_Flipped", "", "flipped", 0),
            J("m_Mass", "", "mass", 0), J("m_PinMotorStrength", "", "pin_motor_strength", 0),
            J("m_PinTargetVelocity", "", "pin_target_velocity", 0),
            JL("m_PointsLocalSpace", "", "points_local_space", "list", "Vec2"),
            J("m_Pos", "x", "pos", 1), J("m_Pos", "y", "pos", 2), J("m_Pos", "z", "pos", 3),
            J("m_Rot", "x", "rot", 1), J("m_Rot", "y", "rot", 2), J("m_Rot", "z", "rot", 3),
            J("m_Rot", "w", "rot", 4), J("m_Scale", "x", "scale", 1),
            J("m_Scale", "y", "scale", 2), J("m_Scale", "z", "scale", 3),
            J("m_RotationDegrees", "", "rotation_degrees", 0),
            JL("m_StaticPins", "", "static_pins", "list", "Vec3"),
            JL("m_DynamicAnchorGuids", "", "dynamic_anchor_guids", "list", "str") >>
    [] e = "Vec3" ->
         << J("x", "", "", 1), J("y", "", "", 2), J("z", "", "", 3) >>
    [] e = "Budget" ->
         << J("m_AllowCable", "", "allow_cable", 0),
            J("m_AllowHydraulic", "", "allow_hydraulics", 0),
            J("m_AllowReinforcedRoad", "", "allow_reinforced_road", 0),
            J("m_AllowRope", "", "allow_rope", 0), J("m_AllowSpring", "", "allow_spring", 0),
            J("m_AllowSteel", "", "allow_steel", 0), J("m_AllowWood", "", "allow_wood", 0),
            J("m_BungieRopeBudget", "", "bungee_rope", 0),
            J("m_CableBudget", "", "cable", 0), J("m_CashBudget", "", "cash", 0),
            J("m_HydraulicBudget", "", "hydraulics", 0), J("m_RoadBudget", "", "road", 0),
            J("m_RopeBudget", "", "rope", 0), J("m_SpringBudget", "", "spring", 0),
            J("m_SteelBudget", "", "steel", 0), J("m_WoodBudget", "", "wood", 0) >>
    [] e = "Settings" ->
         << J("m_HydraulicControllerEnabled", "", "hydraulics_controller_enabled", 0),
            J("m_Unbreakable", "", "unbreakable", 0) >>
    [] e = "Workshop" ->
         << J("m_AutoPlay", "", "autoplay", 0), J("m_Description", "", "description", 0),
            J("m_Id", "", "id", 0), J("m_LeaderboardId", "", "leaderboard_id", 0),
            JL("m_Tags", "", "tags", "list", "str"), J("m_Title", "", "title", 0) >>

RECURSIVE Dumped(_, _)

\* the json dump_json builds from the record val of type e; a key assigned
\* twice holds what was assigned last
Dumped(e, val) ==
  IF e = "str" THEN val
  ELSE
    LET fs == dump_json_fields(e)
        member(f) == IF f.n = "" THEN val ELSE val[f.n]
        written == {i \in DOMAIN fs :
                      CASE fs[i].k = "flat" -> FALSE
                        [] fs[i].k \in {"listo", "nullfor"} -> val[fs[i].n] # <<>>
                        [] OTHER -> TRUE}
        value(f) ==
          CASE f.k = "val" -> IF f.i = 0 THEN member(f) ELSE member(f)[f.i]
            [] f.k \in {"null", "nullfor"} -> "null"
            [] f.k \in {"list", "listo"} ->
                 <<>> \o [x \in DOMAIN val[f.n] |-> Dumped(f.e, val[f.n][x])]
            [] f.k = "rec" -> Dumped(f.e, val[f.n])
        last(is) == CHOOSE i \in is : \A x \in is : x <= i
        at(key) ==
          LET is == {i \in written : fs[i].key = key}
          IN  IF fs[last(is)].comp = "" THEN value(fs[last(is)])
              ELSE [c \in {fs[i].comp : i \in is} |->
                      value(fs[last({i \in is : fs[i].comp = c})])]
        own == [key \in {fs[i].key : i \in written} |-> at(key)]
        flats == {i \in DOMAIN fs : fs[i].k = "flat"}
    IN  IF flats = {} THEN own
        ELSE LET f == fs[CHOOSE i \in flats : TRUE]
             IN  own @@ Dumped(f.e, val[f.n])

\* dump_json: the document written for the Layout
dump_json(l) == Dumped("Layout", l)

RECURSIVE Constructed(_)

\* a default-constructed record of type e (Layout layout; Vehicle vh; ...):
\* every vector and string empty, every scalar value-initialized
Constructed(e) ==
  LET fs == CASE e = "Layout" -> deserializeLayoutSections(MAX_VERSION)
              [] e = "Bridge" -> deserializeBridgeBody(MAX_BRIDGE_VERSION)
              [] OTHER -> ElemFields(e, MAX_VERSION)
      kept == {i \in DOMAIN fs : fs[i].keep}
      zero(f) == CASE f.k \in {"list", "listc"} -> <<>>
                   [] f.k = "rec" -> Constructed(f.sub)
                   [] f.k = "bridge" -> Constructed("Bridge")
                   [] OTHER -> ZeroOf(f.k)
      members == [nm \in {fs[i].n : i \in kept} |->
                    zero(fs[CHOOSE i \in kept : fs[i].n = nm])]
  IN  CASE e = "Layout" ->
             members @@ [version |-> 0, isModded |-> FALSE,
                         modData |-> [mods |-> <<>>, mod_save_data |-> <<>>]]
        [] e = "Bridge" -> members @@ [version |-> 0]
        [] OTHER -> members

RECURSIVE Loaded(_, _)

\* the record of type e load_json builds from the json j: operator[] on a
\* key that is absent yields null, over which a loop runs no turn; every
\* member no statement assigns keeps what the constructor gave it
Loaded(e, j) ==
  IF e = "str" THEN j
  ELSE
    LET fs == load_json_fields(e)
        has(f) == f.key \in DOMAIN j /\ (f.comp = "" \/ f.comp \in DOMAIN j[f.key])
        get(f) == IF f.comp = "" THEN j[f.key] ELSE j[f.key][f.comp]
        value(f) ==
          CASE f.k = "val" -> get(f)
            [] f.k = "list" ->
                 IF has(f) THEN <<>> \o [x \in DOMAIN get(f) |-> Loaded(f.e, get(f)[x])]
                 ELSE <<>>
            [] f.k = "rec" -> Loaded(f.e, IF has(f) THEN get(f) ELSE EmptyRec)
        last(is) == CHOOSE i \in is : \A x \in is : x <= i
        whole(nm) == {i \in DOMAIN fs : fs[i].n = nm /\ fs[i].i = 0}
        part(nm, c) == {i \in DOMAIN fs : fs[i].n = nm /\ fs[i].i = c}
        names == {fs[i].n : i \in DOMAIN fs}
    IN  IF names = {""}
          THEN [c \in 1..Len(fs) |-> value(fs[last(part("", c))])]
          ELSE LET made == Constructed(e)
                   of(nm) ==
                     IF whole(nm) # {} THEN value(fs[last(whole(nm))])
                     ELSE [c \in DOMAIN made[nm] |->
                             IF part(nm, c) # {} THEN value(fs[last(part(nm, c))])
                             ELSE made[nm][c]]
               IN  [nm \in names |-> of(nm)] @@ made

RECURSIVE Throws(_, _)

\* whether load_json ends in a json::type_error: get<T>() of a value whose
\* key is absent (null)
Throws(e, j) ==
  /\ e # "str"
  /\ LET fs == load_json_fields(e)
         has(f) == f.key \in DOMAIN j /\ (f.comp = "" \/ f.comp \in DOMAIN j[f.key])
         get(f) == IF f.comp = "" THEN j[f.key] ELSE j[f.key][f.comp]
     IN  \E i \in DOMAIN fs :
           CASE fs[i].k = "val" -> ~has(fs[i])
             [] fs[i].k = "list" ->
                  has(fs[i]) /\ \E x \in DOMAIN get(fs[i]) : Throws(fs[i].e, get(fs[i])[x])
             [] fs[i].k = "rec" ->
                  Throws(fs[i].e, IF has(fs[i]) THEN get(fs[i]) ELSE EmptyRec)

\* load_json: the Layout built from the document
load_json(j) == Loaded("Layout", j)

-----------------------------------------------------------------------------
(* Test inputs.  A Layout (or record) with n elements in every list is built *)
(* from a field list; element j of a list is built from seed j.              *)

MaxCount == 1
MaxLayoutVersion == 27
MaxBridgeVersion == 12
PistonSteps == 20

SampleVal(k, seed) ==
  CASE k \in {"i16", "i32", "i32cash"} -> seed
    [] k \in {"f32", "f32abs", "f32fix"} -> seed * Half
    [] k = "bool" -> (seed % 2 = 1)
    [] k \in {"str", "strNE"} -> << 96 + seed >>
    [] k = "vec2" -> << seed * One, -seed * One >>
    [] k = "vec3" -> << seed * One, -seed * One, seed * Half >>
    [] k = "vec3pin" -> << seed * One, -seed * One, StaticPinZ >>
    [] k = "quat" -> << 0, 0, seed * Half, One >>
    [] k = "color" -> << seed, 2 * seed, 3 * seed, 255 >>

RECURSIVE SampleFrom(_, _, _, _)

SampleElem(e, version, n, seed) ==
  IF e \in PrimKinds THEN SampleVal(e, seed)
  ELSE SampleFrom(ElemFields(e, version), version, n, seed)

\* the value of the member field f stores
SampleField(f, version, n, seed) ==
  CASE f.k = "const" -> f.sub
    [] f.k = "rec" -> SampleElem(f.sub, version, n, seed)
    [] f.k \in {"list", "listc"} ->
         <<>> \o [j \in 1..n |-> SampleElem(f.sub, version, n, j)]
    [] OTHER -> SampleVal(f.k, seed)

\* the fields of fs that store a member
Sampled(fs) == {i \in DOMAIN fs : fs[i].keep /\ fs[i].k \notin {"lit32", "bridge"}}

\* the last field of fs that stores the member nm
LastNamed(fs, nm) ==
  CHOOSE i \in Sampled(fs) :
    fs[i].n = nm /\ \A j \in Sampled(fs) : fs[j].n = nm => j <= i

\* a record holding every member the fields fs store
SampleFrom(fs, version, n, seed) ==
  EmptyRec @@ [nm \in {fs[i].n : i \in Sampled(fs)} |->
                 SampleField(fs[LastNamed(fs, nm)], version, n, seed)]

SampleFields(fs, version, n) == SampleFrom(fs, version, n, 1)

\* a bridge of format version bver, n elements per list, pistons holding x
SampleBridge(bver, n, x) ==
  LET b == ("version" :> bver)
           @@ SampleFields(deserializeBridgeBody(bver), bver, n)
  IN  [b EXCEPT !.pistons = [j \in DOMAIN @ |-> [@[j] EXCEPT !.normalized_value = x]]]

\* the contents of a layout file of format version ver
SampleContent(ver, bver, n, x) ==
  ("bridge" :> SampleBridge(bver, n, x))
  @@ SampleFields(deserializeLayoutSections(ver), ver, n)

\* the Layout handed to the Serializer: version and bridge.version are what
\* load_json stored; with dup, a second vehicle repeats the first one's guid
SampleLayout(ver, bver, n, dup, modded) ==
  LET c == SampleContent(MAX_VERSION, MAX_BRIDGE_VERSION, n, Half)
      v2 == [c.vehicles[1] EXCEPT !.display_name = <<122>>, !.checkpoint_guids = <<>>]
  IN  ("version" :> ver) @@ ("isModded" :> modded)
      @@ ("bridge" :> [c.bridge EXCEPT !.version = bver])
      @@ ("vehicles" :> IF dup /\ n >= 1 THEN Append(c.vehicles, v2) ELSE c.vehicles)
      @@ c

\* the save data entries after the mod list of a modded file: <<name,
\* version, payload>>; an entry without a name has no payload; "zero" and
\* "negative" hold an entry whose byte array has no positive length
ModSaveEntries(mod) ==
  CASE mod = "save" -> << <<<<>>, <<49>>, <<>>>>, <<<<109>>, <<49>>, <<7, 9>>>> >>
    [] mod = "skips" -> << <<<<>>, <<50>>, <<>>>>, <<<<110>>, <<>>, <<8>>>>,
                           <<<<>>, <<>>, <<>>>> >>
    [] mod = "zero" -> << <<<<109>>, <<49>>, <<7>>>>, <<<<110>>, <<49>>, <<>>>>,
                          <<<<111>>, <<49>>, <<9>>>> >>
    [] mod = "negative" -> << <<<<109>>, <<49>>, <<-1>>>>, <<<<110>>, <<49>>, <<9>>>> >>
    [] OTHER -> <<>>

\* the bytes of a save data entry: the identifier, then the byte array; the
\* payload <<-1>> stands for a length of -1 and no byte
ModSaveBytes(e) ==
  writeString(e[1] \o Delimiter \o e[2])
  \o (CASE e[1] = <<>> -> <<>>
        [] e[3] = <<-1>> -> writeInt32(-1)
        [] OTHER -> writeInt32(Len(e[3])) \o e[3])

\* the mod data at the end of a modded file: one mod, and the file ends
\* (mod "mods") or the save data follow ("save0": a count of 0)
ModBytes(mod) ==
  IF mod = "none" THEN <<>>
  ELSE LE16(1) \o writeString(<<109>> \o Delimiter \o <<49>> \o Delimiter \o <<115>>)
       \o (IF mod = "mods" THEN <<>>
           ELSE writeInt32(Len(ModSaveEntries(mod)))
                \o Flatten([i \in DOMAIN ModSaveEntries(mod) |->
                              ModSaveBytes(ModSaveEntries(mod)[i])]))

\* the raw version word of the file an input describes
RawVersion(g) == IF g.mod = "none" \/ g.ver = MinInt32 THEN g.ver ELSE -g.ver

\* a layout file: the raw version word, the sections of that version, mod data
LayoutFile(g, content) ==
  writeInt32(RawVersion(g))
  \o WriteFields(deserializeLayoutSections(g.ver), g.ver, content).b
  \o ModBytes(g.mod)

\* a bridge buffer: the version word and the fields of that version
BridgeFile(bver, bridge) ==
  writeInt32(bver) \o WriteFields(deserializeBridgeBody(bver), bver, bridge).b

LayoutVersions == (0..MaxLayoutVersion) \cup {60, 101}

PistonGrid == {25 * i : i \in (-PistonSteps)..(40 + PistonSteps)}

EncodeInputs ==
  [op : {"encode"}, ver : {MAX_VERSION, 7}, bver : {MAX_BRIDGE_VERSION, 3},
   n : 0..MaxCount, mod : {"none", "mods"}, x : {0, 1},
   pos : {0}, mut : {"none"}, thumb : {FALSE}]

DecodeInputs ==
  {g \in [op : {"decode"}, ver : LayoutVersions \cup {MinInt32},
          bver : {MAX_BRIDGE_VERSION}, n : 0..MaxCount,
          mod : {"none", "mods", "save", "save0", "skips", "zero", "negative"},
          x : {Half},
          pos : {0}, mut : {"none"}, thumb : {FALSE}] :
     (g.ver <= 0 => g.mod = "none")}

BridgeInputs ==
  {g \in [op : {"bridge"}, ver : {MAX_VERSION}, bver : 0..MaxBridgeVersion,
          n : 0..MaxCount, mod : {"none"}, x : PistonGrid,
          pos : {0}, mut : {"none"}, thumb : {FALSE}] :
     (g.n = 0 \/ g.bver < 2 => g.x = Half)}

\* a string of a slot file: 8-bit (0, length, bytes) or UTF-16 (1, length, units)
SStr(bytes) == <<0>> \o writeInt32(Len(bytes)) \o bytes
WStr(units) == <<1>> \o writeInt32(Len(units)) \o Flatten([i \in DOMAIN units |-> LE16(units[i])])

m_Bridge == <<109, 95, 66, 114, 105, 100, 103, 101>>
m_X == <<109, 95, 88>>

\* the entry of a slot file at step i of deserializeSlot; the input g changes
\* the category (mut "category") or the name (mut "name") of the entry at g.pos,
\* or gives the node at g.pos a TypeID descriptor and its node id (mut "typeid"),
\* or the array at g.pos another count and size: one element of the length of
\* the payload (mut "wide"), no element of size 7 (mut "empty"), the payload
\* without its last byte (mut "short"), 2^16 elements
\* of size 2^16 or 2^15 and no payload (mut "wrap", "wrapneg")
SlotEntry(g, i, bridge) ==
  LET f == deserializeSlot[i]
      cat == g.pos = i /\ g.mut = "category"
      nam == g.pos = i /\ g.mut = "name"
      tid == g.pos = i /\ g.mut = "typeid"
      name == IF nam THEN m_X ELSE f.name
      shape == IF g.pos = i THEN g.mut ELSE "none"
      array(tag, data) ==
        <<tag>> \o (CASE shape = "wide" -> writeInt32(1) \o writeInt32(Len(data)) \o data
                      [] shape = "empty" -> writeInt32(0) \o writeInt32(7)
                      [] shape = "short" -> writeInt32(Len(data) - 1) \o writeInt32(1)
                                            \o SubSeq(data, 1, Len(data) - 1)
                      [] shape = "wrap" -> writeInt32(65536) \o writeInt32(65536)
                      [] shape = "wrapneg" -> writeInt32(65536) \o writeInt32(32768)
                      [] OTHER -> writeInt32(Len(data)) \o writeInt32(1) \o data)
      value == CASE f.n = "version" -> writeInt32(g.ver)
                 [] f.n = "physicsVersion" -> writeInt32(1)
                 [] f.n = "slotId" -> writeInt32(2)
                 [] f.n = "displayName" -> WStr(<<66, 233>>)
                 [] f.n = "fileName" -> SStr(<<102>>)
                 [] f.n = "budget" -> writeInt32(1000)
                 [] f.n = "lastWriteTimeTicks" -> <<1, 2, 3, 4, 5, 6, 7, 8>>
                 [] f.n = "unlimitedMaterials" -> <<1>>
                 [] f.n = "unlimitedBudget" -> <<0>>
                 [] OTHER -> <<>>
      tag == CASE f.read = "int" -> IF cat THEN 39 ELSE 23
               [] f.read = "long" -> IF cat THEN 39 ELSE 27
               [] f.read = "string" -> IF cat THEN 23 ELSE 39
               [] f.read = "bool" -> IF cat THEN 23 ELSE 43
               [] OTHER -> 0
  IN  CASE f.kind = "scalar" -> <<tag>> \o SStr(name) \o value
        [] f.n = "root" ->
             IF cat THEN <<46>>
             ELSE (IF nam THEN <<1>> \o SStr(m_X) ELSE <<2>>)
                  \o (IF tid THEN <<48>> ELSE <<47>> \o writeInt32(0) \o SStr(<<66, 44, 32, 65>>))
                  \o writeInt32(0)
        [] f.n = "bridgeNode" ->
             IF cat THEN <<45>> \o SStr(m_Bridge)
             ELSE <<1>> \o SStr(IF nam THEN m_X ELSE m_Bridge)
                  \o (IF tid THEN <<48>> ELSE <<47>> \o writeInt32(1) \o SStr(<<98, 44, 32, 65>>))
                  \o writeInt32(1)
        [] f.n = "bridge" ->
             array(IF cat THEN 7 ELSE 8, bridge)
        [] f.n = "thumbNode" ->
             <<IF cat THEN 23 ELSE IF g.thumb THEN 1 ELSE 45>>
             \o SStr(IF nam THEN m_X ELSE AssertedNames.m_Thumb)
             \o (IF ~g.thumb THEN <<>>
                 ELSE IF tid THEN <<48>> \o writeInt32(2)
                 ELSE <<48>> \o writeInt32(1) \o writeInt32(2))
        [] f.n = "thumbnail" ->
             IF g.thumb THEN array(IF cat THEN 7 ELSE 8, <<9, 9>>) ELSE <<>>
        [] f.n = "thumbEnd" -> IF g.thumb THEN <<IF cat THEN 7 ELSE 5>> ELSE <<>>
        [] f.kind = "endOfNode" -> <<IF cat THEN 7 ELSE 5>>

\* a slot file: its entries in order; mut "cut" ends the file before entry g.pos
SlotFile(g, bridge) ==
  Flatten([i \in 1..(IF g.mut = "cut" THEN g.pos - 1 ELSE Len(deserializeSlot)) |->
             SlotEntry(g, i, bridge)])

SlotInputs ==
  {g \in [op : {"slot"}, ver : {MAX_SLOT_VERSION}, bver : {10, MAX_BRIDGE_VERSION},
          n : 0..MaxCount, mod : {"none"}, x : {Half},
          pos : 0..Len(deserializeSlot), mut : {"none", "category", "name", "cut", "typeid",
                 "wide", "empty", "short", "wrap", "wrapneg"},
          thumb : BOOLEAN] :
     /\ (g.pos = 0) = (g.mut = "none")
     /\ (g.mut = "typeid" => deserializeSlot[g.pos].kind \in {"enterNode", "thumb"})
     /\ (g.mut = "typeid" /\ g.pos = 12 => g.thumb)
     /\ (g.mut \in {"wide", "empty", "short", "wrap", "wrapneg"} =>
           deserializeSlot[g.pos].kind = "array")
     /\ (~g.thumb => g.pos \notin {13, 14})
     /\ (g.mut = "name" => deserializeSlot[g.pos].kind \notin {"array", "endOfNode"})}

\* the checks a run may make: <<value, min, max, warnMin, warnMax>>, with the
\* default envelope of Utils::intc and with that of a format version
GuardChecks ==
  { <<v, -1000, 10000, 0, 4096>> : v \in {-2000, -1, 7, 5000, 20000} }
  \cup { <<v, 0, 100, 0, 50>> : v \in {60, 101} }

\* the number of checks of such a run
MaxChecks == 4

GuardInputs ==
  [op : {"guard"}, ver : {MAX_VERSION}, bver : {MAX_BRIDGE_VERSION}, n : {0},
   mod : {"none"}, x : {Half}, pos : {0}, mut : {"none"}, thumb : {FALSE}]

\* a stream peekEntryType is called on: nothing (pos -1), or the discriminant
\* pos, a name (UTF-16 with thumb) and one more byte.  The discriminants are
\* those within the range of the values of enum BinaryEntryType (6 bits); the
\* cast of a larger byte to the enum is undefined.
PeekFile(g) ==
  IF g.pos < 0 THEN <<>>
  ELSE <<g.pos>> \o (IF g.thumb THEN WStr(<<88, 233>>) ELSE SStr(m_X)) \o <<7>>

PeekInputs ==
  [op : {"peek"}, ver : {MAX_SLOT_VERSION}, bver : {MAX_BRIDGE_VERSION}, n : {0},
   mod : {"none"}, x : {Half}, pos : (-1)..63, mut : {"none"}, thumb : BOOLEAN]

\* the Layouts whose .layout.json is written and read back
JsonInputs ==
  [op : {"json"}, ver : {MAX_VERSION, 7}, bver : {MAX_BRIDGE_VERSION, 3},
   n : 0..MaxCount, mod : {"none", "mods"}, x : {Half},
   pos : {0}, mut : {"none"}, thumb : {FALSE}]

\* the three strings deserializeEventUnit is called on: string i is empty
\* unless bit i of g.pos is set
UnitStrings(g) ==
  [i \in 1..3 |-> IF (g.pos \div (2 ^ (i - 1))) % 2 = 1 THEN << 96 + i, 48 + i >> ELSE <<>>]

\* a stream holding the three strings and a byte more
UnitFile(g) ==
  writeString(UnitStrings(g)[1]) \o writeString(UnitStrings(g)[2])
  \o writeString(UnitStrings(g)[3]) \o <<7>>

UnitInputs ==
  [op : {"unit"}, ver : {0, 6, 7, MAX_VERSION}, bver : {MAX_BRIDGE_VERSION}, n : {0},
   mod : {"none"}, x : {Half}, pos : 0..7, mut : {"none"}, thumb : {FALSE}]

\* a string of g.pos characters handed to Serializer::writeString, lengths
\* around 2^16 among them
StringOf(g) == [i \in 1..g.pos |-> 97 + (i % 2)]

StringInputs ==
  [op : {"string"}, ver : {MAX_VERSION}, bver : {MAX_BRIDGE_VERSION}, n : {0},
   mod : {"none"}, x : {Half}, pos : {0, 1, 2, 65535, 65536, 65537},
   mut : {"none"}, thumb : {FALSE}]

Inputs ==
  EncodeInputs \cup DecodeInputs \cup BridgeInputs \cup SlotInputs \cup GuardInputs
  \cup JsonInputs \cup PeekInputs \cup UnitInputs \cup StringInputs

Reader0 == [p |-> 0, ok |-> TRUE, un |-> 1, ab |-> FALSE, ub |-> FALSE]

-----------------------------------------------------------------------------
(* The runs: main() on a .layout.json (Serializer, then the file it wrote   *)
(* is decoded again), main() on a .layout (Deserializer), and the two       *)
(* bridge decoders on one bridge buffer, main() on a .slot file              *)
(* (SlotDeserializer), and a run seen as the checks it makes through         *)
(* Utils::ensureReasonable, and main() on a .layout followed by main() on    *)
(* the .layout.json it wrote, up to the Layout load_json returns, and one    *)
(* call of peekEntryType or of deserializeEventUnit on a stream, and one     *)
(* string written by Serializer::writeString and read back by                *)
(* Deserializer::readString.                                                 *)

\* the custom shape cs with a bounciness of 0.25 and its static pins at z 0.5
Unpinned(cs) ==
  [cs EXCEPT !.bounciness = Quarter,
             !.static_pins = [i \in DOMAIN @ |-> <<@[i][1], @[i][2], Half>>]]

\* the contents c of a layout file with the height of every ramp below 0 and
\* every custom shape unpinned
Sunk(c) ==
  ("customShapes" :> IF "customShapes" \in DOMAIN c
                       THEN [j \in DOMAIN c.customShapes |-> Unpinned(c.customShapes[j])]
                       ELSE <<>>)
  @@ [c EXCEPT !.ramps = [j \in DOMAIN @ |-> [@[j] EXCEPT !.height = -@]]]

\* what an input holds: the Layout handed to the Serializer, the contents of
\* a layout file, or the bridge of a bridge buffer or a slot file
\* the mod data of a Layout in memory: one mod when the layout is modded
SampleModData(mod) ==
  [mods |-> IF mod = "none" THEN <<>> ELSE << ModOf(<< <<109>>, <<49>>, <<115>> >>) >>,
   mod_save_data |-> <<>>]

Sample(g) ==
  CASE g.op = "encode" ->
         ("modData" :> SampleModData(g.mod))
         @@ SampleLayout(g.ver, g.bver, g.n, g.x = 1, g.mod # "none")
    [] g.op = "decode" -> Sunk(SampleContent(g.ver, g.bver, g.n, g.x))
    [] g.op = "json" ->
         ("modData" :> SampleModData(g.mod))
         @@ SampleLayout(g.ver, g.bver, g.n, FALSE, g.mod # "none")
    [] OTHER -> SampleBridge(g.bver, g.n, g.x)

Init ==
  \E g \in Inputs :
  \E sample \in {Sample(g)} :
  \E bridge \in {IF g.op \in {"bridge", "slot"} THEN BridgeFile(g.bver, sample)
                 ELSE <<>>} :
    /\ given = g
    /\ pc = (CASE g.op = "encode" -> "serializePreBridgeBinary"
               [] g.op = "decode" -> "getVersion"
               [] g.op = "bridge" -> "bridge"
               [] g.op = "slot" -> "deserializeSlot"
               [] g.op = "guard" -> "ensureReasonable"
               [] g.op = "json" -> "dump_json"
               [] g.op = "peek" -> "peekEntryType"
               [] g.op = "unit" -> "deserializeEventUnit"
               [] g.op = "string" -> "writeString")
    /\ file = (CASE g.op = "encode" -> <<>>
                 [] g.op = "decode" -> LayoutFile(g, sample)
                 [] g.op = "bridge" -> bridge
                 [] g.op = "slot" -> SlotFile(g, bridge)
                 [] g.op \in {"guard", "json", "string"} -> <<>>
                 [] g.op = "peek" -> PeekFile(g)
                 [] g.op = "unit" -> UnitFile(g))
    /\ src = (CASE g.op = "encode" -> sample
                [] g.op = "string" -> ("value" :> StringOf(g))
                [] OTHER -> EmptyRec)
    /\ rd = Reader0
    /\ layout = IF g.op = "json" THEN sample ELSE EmptyRec
    /\ trace = <<>>
    /\ sections = <<>>
    /\ wtrace = <<>>
    /\ simple = <<>>
    /\ slot = EmptyRec
    /\ step = 1
    /\ json = EmptyRec

\* Serializer::serializePreBridgeBinary
SerializePreBridge ==
  /\ pc = "serializePreBridgeBinary"
  /\ \E w \in {WriteFields(serializePreBridgeBinary, MAX_VERSION, src)} :
       /\ file' = file \o w.b
       /\ wtrace' = wtrace \o Shift(w.tr, Len(file))
  /\ pc' = "serializeBridgeBinary"
  /\ UNCHANGED <<rd, src, layout, trace, sections, simple, slot, step, json, given>>

\* Serializer::serializeBridgeBinary
SerializeBridge ==
  /\ pc = "serializeBridgeBinary"
  /\ \E w \in {WriteFields(serializeBridgeBinary, MAX_BRIDGE_VERSION, src.bridge)} :
       /\ file' = file \o w.b
       /\ wtrace' = wtrace \o Shift(w.tr, Len(file))
  /\ pc' = "serializePostBridgeBinary"
  /\ UNCHANGED <<rd, src, layout, trace, sections, simple, slot, step, json, given>>

\* the vehicles as serializePostBridgeBinary writes them: the checkpoints are
\* those of the vehicle findVehicleByGuid returns
WrittenVehicles(vehicles) ==
  [i \in DOMAIN vehicles |->
     [vehicles[i] EXCEPT !.checkpoint_guids =
        findVehicleByGuid(vehicles, vehicles[i].guid).checkpoint_guids]]

\* Serializer::serializePostBridgeBinary
SerializePostBridge ==
  /\ pc = "serializePostBridgeBinary"
  /\ \E w \in {WriteFields(serializePostBridgeBinary, MAX_VERSION,
                           [src EXCEPT !.vehicles = WrittenVehicles(src.vehicles)])} :
       /\ file' = file \o w.b
       /\ wtrace' = wtrace \o Shift(w.tr, Len(file))
  /\ rd' = ensureReasonable(rd, src.budget.cash, 0, 100000000, 0, 100000000)
  /\ pc' = "serialized"
  /\ UNCHANGED <<src, layout, trace, sections, simple, slot, step, json, given>>

\* main() is run on the file the Serializer wrote: a new process
OpenWritten ==
  /\ pc = "serialized"
  /\ rd' = Reader0
  /\ pc' = "getVersion"
  /\ UNCHANGED <<file, src, layout, trace, sections, wtrace, simple, slot, step, json, given>>

\* deserializeLayout up to the stub key: getVersion, ensureReasonable, intc
GetVersion ==
  /\ pc = "getVersion"
  /\ \E r \in {readInt32(file, rd)} :
       IF ~r.st.ok
         THEN /\ pc' = "failed"
              /\ rd' = r.st
              /\ UNCHANGED <<layout, trace, sections>>
         ELSE \E o \in getVersion(r.v) :
                IF o.trap
                  THEN /\ pc' = "trapped"
                       /\ rd' = r.st
                       /\ UNCHANGED <<layout, trace, sections>>
                  ELSE \E st1 \in {ensureReasonable(r.st, o.version, 0, 100, 0, 50)} :
                       \E st2 \in {IF st1.ab THEN st1 ELSE intc(st1, o.version)} :
                         /\ layout' = [version |-> o.version, isModded |-> o.isModded]
                         /\ rd' = st2
                         /\ trace' = << <<"version", "i32", rd.p>> >>
                         /\ sections' = << "version" >>
                         /\ pc' = IF st2.ab THEN "exit1" ELSE "deserializeLayout"
  /\ UNCHANGED <<file, src, wtrace, simple, slot, step, json, given>>

\* the next section of deserializeLayout, in the order of the code
DeserializeSection ==
  /\ pc = "deserializeLayout"
  /\ \E secs \in {deserializeLayoutSections(layout.version)} :
     \E i \in {Len(sections)} :
       /\ i <= Len(secs)
       /\ \E r \in {ReadField(secs[i], layout.version, file,
                              [st |-> rd, v |-> layout, tr |-> trace])} :
            /\ rd' = r.st
            /\ layout' = r.v
            /\ trace' = r.tr
            /\ sections' = Append(sections, secs[i].n)
            /\ pc' = IF r.st.ab THEN "exit1"
                     ELSE IF ~r.st.ok THEN "failed"
                     ELSE IF i = Len(secs) /\ ~layout.isModded THEN "returned"
                     ELSE pc
  /\ UNCHANGED <<file, src, wtrace, simple, slot, step, json, given>>

\* the end of deserializeLayout on a modded layout: deserializePTFModData
DeserializeModData ==
  /\ pc = "deserializeLayout"
  /\ Len(sections) = Len(deserializeLayoutSections(layout.version)) + 1
  /\ layout.isModded
  /\ \E r \in {deserializePTFModData(file, rd)} :
       /\ rd' = r.st
       /\ layout' = ("modData" :> r.v) @@ layout
       /\ pc' = IF r.st.ab THEN "exit1" ELSE IF ~r.st.ok THEN "failed" ELSE "returned"
  /\ sections' = Append(sections, "modData")
  /\ UNCHANGED <<file, src, trace, wtrace, simple, slot, step, json, given>>

\* Deserializer::deserializeBridge on the bridge buffer
DeserializerBridge ==
  /\ pc = "bridge"
  /\ "bridge" \notin DOMAIN layout
  /\ \E r \in {deserializeBridge(file, Reader0)} :
       /\ layout' = [bridge |-> r.v]
       /\ rd' = r.st
       /\ trace' = r.tr
  /\ pc' = IF simple # <<>> THEN "bridgeDone" ELSE pc
  /\ UNCHANGED <<file, src, sections, wtrace, simple, slot, step, json, given>>

\* SimpleBridgeDeserializer::deserializeBridge on the same buffer
SimpleBridge ==
  /\ pc = "bridge"
  /\ simple = <<>>
  /\ simple' = << SimpleBridgeDeserializer_deserializeBridge(file, Reader0) >>
  /\ pc' = IF "bridge" \in DOMAIN layout THEN "bridgeDone" ELSE pc
  /\ UNCHANGED <<file, rd, src, layout, trace, sections, wtrace, slot, step, json, given>>

\* where deserializeSlot is after a step that left the reader st: exit(1) or
\* an escaped exception, an indeterminate value, a failed assert, the return
SlotNext(st, asserted, next) ==
  IF st.ab THEN "exit1"
  ELSE IF st.ub THEN "failed"
  ELSE IF asserted THEN "aborted"
  ELSE IF next > Len(deserializeSlot) THEN "slotReturned"
  ELSE "deserializeSlot"

\* enterNode() at the root and at the bridge container
SlotEnterNode ==
  /\ pc = "deserializeSlot"
  /\ deserializeSlot[step].kind = "enterNode"
  /\ \E r \in {enterNode(file, rd)} :
       /\ rd' = r.st
       /\ trace' = Append(trace, <<deserializeSlot[step].n, r.type, r.name, rd.p>>)
       /\ pc' = SlotNext(r.st, FALSE, step + 1)
  /\ step' = step + 1
  /\ sections' = Append(sections, deserializeSlot[step].n)
  /\ UNCHANGED <<file, src, layout, wtrace, simple, slot, json, given>>

\* the reader after the value r of field f was read and logged
SlotChecked(f, r) ==
  IF r.st.ub \/ r.st.ab THEN r.st ELSE SlotCheck(f.chk, r.st, r.v)

\* a scalar field read without the assertion on its name
SlotScalar_unnamed ==
  /\ pc = "deserializeSlot"
  /\ deserializeSlot[step].kind = "scalar"
  /\ \E f \in {deserializeSlot[step]} :
     \E et \in {peekEntryType(file, rd)} :
     \E bad \in {et.type # f.type} :
     \E stop \in {et.st.ab \/ et.st.ub \/ bad} :
     \E r \in {IF stop THEN [v |-> 0, st |-> et.st] ELSE SlotValue(f.read, file, et.st)} :
     \E st \in {IF stop THEN et.st ELSE SlotChecked(f, r)} :
       /\ rd' = st
       /\ slot' = IF stop \/ st.ub THEN slot ELSE (f.n :> r.v) @@ slot
       /\ trace' = Append(trace, <<f.n, et.type, et.name, rd.p>>)
       /\ pc' = SlotNext(st, bad, step + 1)
  /\ step' = step + 1
  /\ sections' = Append(sections, deserializeSlot[step].n)
  /\ UNCHANGED <<file, src, layout, wtrace, simple, json, given>>

\* a scalar field: peekEntryType, assert category and name, read, log
SlotScalar ==
  /\ pc = "deserializeSlot"
  /\ deserializeSlot[step].kind = "scalar"
  /\ \E f \in {deserializeSlot[step]} :
     \E et \in {peekEntryType(file, rd)} :
     \E bad \in {et.type # f.type \/ et.name # f.name} :
     \E stop \in {et.st.ab \/ et.st.ub \/ bad} :
     \E r \in {IF stop THEN [v |-> 0, st |-> et.st] ELSE SlotValue(f.read, file, et.st)} :
     \E st \in {IF stop THEN et.st ELSE SlotChecked(f, r)} :
       /\ rd' = st
       /\ slot' = IF stop \/ st.ub THEN slot ELSE (f.n :> r.v) @@ slot
       /\ trace' = Append(trace, <<f.n, et.type, et.name, rd.p>>)
       /\ pc' = SlotNext(st, bad, step + 1)
  /\ step' = step + 1
  /\ sections' = Append(sections, deserializeSlot[step].n)
  /\ UNCHANGED <<file, src, layout, wtrace, simple, json, given>>

\* the bound ensureReasonable puts on the byte count of an array
SlotArrayLimit(n) == IF n = "bridge" THEN 100000000 ELSE 10000000

\* a primitive array: assert the category, read num and num2, then num * num2
\* bytes; the bridge bytes go through SimpleBridgeDeserializer
SlotArray ==
  /\ pc = "deserializeSlot"
  /\ deserializeSlot[step].kind = "array"
  /\ \E f \in {deserializeSlot[step]} :
     \E et \in {peekEntryType(file, rd)} :
     \E bad \in {et.type # "PrimitiveArrayType"} :
     \E stop \in {et.st.ab \/ et.st.ub \/ bad} :
     \E num \in {Slot_readInt(file, et.st)} :
     \E num2 \in {Slot_readInt(file, num.st)} :
       /\ trace' = Append(trace, <<f.n, et.type, et.name, rd.p>>)
       /\ IF stop \/ num2.st.ub
            THEN /\ rd' = IF stop THEN et.st ELSE num2.st
                 /\ pc' = SlotNext(IF stop THEN et.st ELSE num2.st, bad, step + 1)
                 /\ UNCHANGED <<slot, simple>>
            ELSE \E o \in Multiply(num.v, num2.v) :
                   IF o.trap
                     THEN /\ pc' = "trapped"
                          /\ rd' = num2.st
                          /\ UNCHANGED <<slot, simple>>
                     ELSE \E d \in {Slot_read(file, num2.st, o.v)} :
                          \E st1 \in {IF o.v < 0 THEN [num2.st EXCEPT !.ab = TRUE]
                                      ELSE d.st} :
                          \E st2 \in {IF st1.ab \/ st1.ub THEN st1
                                      ELSE ensureReasonable(st1, o.v, 0,
                                             SlotArrayLimit(f.n), 0, SlotArrayLimit(f.n))} :
                          \E decode \in {f.n = "bridge" /\ ~st2.ab /\ ~st2.ub} :
                          \E b \in {IF decode
                                      THEN SimpleBridgeDeserializer_deserializeBridge(d.v,
                                             [Reader0 EXCEPT !.un = st2.un])
                                      ELSE [v |-> EmptyRec, st |-> Reader0, tr |-> <<>>]} :
                          \E st \in {IF decode
                                       THEN [st2 EXCEPT !.un = b.st.un, !.ab = b.st.ab,
                                                        !.ub = ~b.st.ok]
                                       ELSE st2} :
                            /\ rd' = st
                            /\ pc' = SlotNext(st, FALSE, step + 1)
                            /\ simple' = IF decode THEN << b >> ELSE simple
                            /\ slot' = IF st.ab \/ st.ub THEN slot
                                       ELSE IF decode THEN (f.n :> b.v) @@ slot
                                       ELSE (f.n :> d.v) @@ slot
  /\ step' = step + 1
  /\ sections' = Append(sections, deserializeSlot[step].n)
  /\ UNCHANGED <<file, src, layout, wtrace, json, given>>

\* the end of a node: assert the category EndOfNodeType
SlotEndOfNode ==
  /\ pc = "deserializeSlot"
  /\ deserializeSlot[step].kind = "endOfNode"
  /\ \E et \in {peekEntryType(file, rd)} :
     \E bad \in {et.type # "EndOfNodeType"} :
       /\ rd' = et.st
       /\ trace' = Append(trace, <<deserializeSlot[step].n, et.type, et.name, rd.p>>)
       /\ pc' = SlotNext(et.st, bad, step + 1)
  /\ step' = step + 1
  /\ sections' = Append(sections, deserializeSlot[step].n)
  /\ UNCHANGED <<file, src, layout, wtrace, simple, slot, json, given>>

\* the thumbnail node: one byte, the type id and the node id
SlotThumbNode(s, st) == Slot_readInt(s, Slot_readInt(s, Slot_get(s, st).st).st).st

\* the thumbnail entry et read as a node on a Null entry too
ThumbEntered_nodeOnNull(s, et) == SlotThumbNode(s, et.st)

\* the reader after the branch on the thumbnail entry et: a Null entry has
\* nothing after its name
ThumbEntered(s, et) ==
  IF et.type = "Null" THEN et.st ELSE SlotThumbNode(s, et.st)

\* the thumbnail entry: assert the name m_Thumb; Null ends the field, any other
\* category is taken for a node: one byte, the type id and the node id are read
SlotThumb ==
  /\ pc = "deserializeSlot"
  /\ deserializeSlot[step].kind = "thumb"
  /\ \E et \in {peekEntryType(file, rd)} :
     \E bad \in {et.name # AssertedNames.m_Thumb} :
     \E stop \in {et.st.ab \/ et.st.ub \/ bad} :
     \E null \in {et.type = "Null"} :
     \E st \in {IF stop THEN et.st ELSE ThumbEntered(file, et)} :
     \E next \in {IF null THEN step + 3 ELSE step + 1} :
       /\ rd' = st
       /\ trace' = Append(trace, <<deserializeSlot[step].n, et.type, et.name, rd.p>>)
       /\ pc' = SlotNext(st, bad, next)
       /\ step' = next
  /\ sections' = Append(sections, deserializeSlot[step].n)
  /\ UNCHANGED <<file, src, layout, wtrace, simple, slot, json, given>>

\* one call of Utils::ensureReasonable (directly or through Utils::intc) on
\* the counter of the run; the trace keeps the check and the counter before it
EnsureReasonable ==
  /\ pc = "ensureReasonable"
  /\ Len(trace) < MaxChecks
  /\ \E c \in GuardChecks :
     \E st \in {ensureReasonable(rd, c[1], c[2], c[3], c[4], c[5])} :
       /\ rd' = st
       /\ trace' = Append(trace, <<c[1], c[2], c[3], c[4], c[5], rd.un>>)
       /\ pc' = IF st.ab THEN "exit1" ELSE pc
  /\ UNCHANGED <<file, src, layout, sections, wtrace, simple, slot, step, json, given>>

\* SlotDeserializer::peekEntryType on a stream just opened; the entry is
\* recorded as those of a slot are, with step 0
Peek ==
  /\ pc = "peekEntryType"
  /\ \E r \in {peekEntryType(file, rd)} :
       /\ rd' = r.st
       /\ trace' = Append(trace, <<0, r.type, r.name, rd.p>>)
       /\ pc' = IF r.st.ab THEN "exit1" ELSE "peeked"
  /\ UNCHANGED <<file, src, layout, sections, wtrace, simple, slot, step, json, given>>

\* main() on a .layout: dump_json of the Layout that was decoded
DumpJson ==
  /\ pc = "dump_json"
  /\ json' = dump_json(layout)
  /\ pc' = "dumped"
  /\ UNCHANGED <<file, rd, src, layout, trace, sections, wtrace, simple, slot, step, given>>

\* main() on the .layout.json: load_json builds the Layout of the Serializer
LoadJson ==
  /\ pc = "dumped"
  /\ \E thrown \in {Throws("Layout", json)} :
       /\ src' = IF thrown THEN src ELSE load_json(json)
       /\ pc' = IF thrown THEN "terminated" ELSE "loaded"
  /\ UNCHANGED <<file, rd, layout, trace, sections, wtrace, simple, slot, step, json, given>>

\* one call of Deserializer::deserializeEventUnit; the unit is kept in layout
DeserializeEventUnit ==
  /\ pc = "deserializeEventUnit"
  /\ \E r \in {ReadElem("EventUnit", given.ver, file, rd, <<>>)} :
       /\ rd' = r.st
       /\ layout' = r.v
       /\ trace' = r.tr
       /\ pc' = IF r.st.ok THEN "unitRead" ELSE "failed"
  /\ UNCHANGED <<file, src, sections, wtrace, simple, slot, step, json, given>>

\* one call of Serializer::writeString on the string src.value
WriteString ==
  /\ pc = "writeString"
  /\ file' = file \o writeString(src.value)
  /\ pc' = "readString"
  /\ UNCHANGED <<rd, src, layout, trace, sections, wtrace, simple, slot, step, json, given>>

\* one call of Deserializer::readString on the file written
ReadString ==
  /\ pc = "readString"
  /\ \E r \in {readString(file, rd)} :
       /\ rd' = r.st
       /\ layout' = ("value" :> r.v)
       /\ pc' = IF r.st.ok THEN "stringRead" ELSE "failed"
  /\ UNCHANGED <<file, src, trace, sections, wtrace, simple, slot, step, json, given>>

Next ==
  \/ SerializePreBridge
  \/ SerializeBridge
  \/ SerializePostBridge
  \/ OpenWritten
  \/ GetVersion
  \/ DeserializeSection
  \/ DeserializeModData
  \/ DeserializerBridge
  \/ SimpleBridge
  \/ SlotEnterNode
  \/ SlotScalar
  \/ SlotArray
  \/ SlotEndOfNode
  \/ SlotThumb
  \/ EnsureReasonable
  \/ DumpJson
  \/ LoadJson
  \/ Peek
  \/ DeserializeEventUnit
  \/ WriteString
  \/ ReadString

Spec == Init /\ [][Next]_vars

-----------------------------------------------------------------------------
(* Properties *)

\* the positions at which a run has ended
Terminal ==
  pc \in {"returned", "failed", "exit1", "trapped", "aborted", "slotReturned", "bridgeDone",
          "loaded", "terminated", "peeked", "unitRead", "stringRead"}

IsPrefix(a, b) == Len(a) <= Len(b) /\ SubSeq(b, 1, Len(a)) = a

RECURSIVE Rep(_, _)
Rep(s, n) == IF n <= 0 THEN <<>> ELSE s \o Rep(s, n - 1)

\* the names of the fields of a trace, in order
Names(tr) == [i \in DOMAIN tr |-> tr[i][1]]

\* the run encodes a Layout and decodes the file written
Encoding == given.op = "encode"

\* C1: round trip at the current version: for a Layout of version 26 with a
\* bridge of version 11, decoding the bytes the Serializer wrote returns a
\* Layout equal to it in every field (so a second encode and decode returns
\* the same Layout again).
C1_RoundTrip ==
  (Encoding /\ given.ver = MAX_VERSION /\ given.bver = MAX_BRIDGE_VERSION /\ Terminal)
    => /\ pc = "returned"
       /\ \A k \in DOMAIN src : k \in DOMAIN layout /\ layout[k] = src[k]

\* C2: the encoder mirrors the decoder: decoding an encoded non-modded layout
\* reads exactly the fields that were written, each at the offset it was
\* written at, consumes every byte and ends at the end of the stream.
C2_EncoderMirrorsDecoder ==
  (Encoding /\ given.mod = "none" /\ Terminal)
    => /\ pc = "returned"
       /\ rd.p = Len(file)
       /\ trace = wtrace

\* the six collections of a Bridge
Collections == {"joints", "edges", "springs", "pistons", "phases", "anchors"}

\* C3: the two bridge decoders agree: on the same buffer of a bridge of version
\* 0..11, SimpleBridgeDeserializer consumes as many bytes as
\* Deserializer::deserializeBridge and returns the same six collections.
C3_BridgeDecodersAgree ==
  (given.op = "bridge" /\ given.bver <= MAX_BRIDGE_VERSION /\ pc = "bridgeDone")
    => /\ simple[1].st.p = rd.p
       /\ \A k \in Collections : simple[1].v[k] = layout.bridge[k]

\* the offset of the bridge version in the written file: the second field
\* named version that the Serializer wrote
BridgeVersionAt ==
  wtrace[CHOOSE i \in DOMAIN wtrace : i > 1 /\ wtrace[i][1] = "version"][3]

\* C4: the Serializer writes 26 as the first int32 of the file and 11 as the
\* version of the bridge, whatever layout.version and layout.bridge.version hold.
C4_WritesFixedVersions ==
  Encoding =>
    /\ (pc # "serializePreBridgeBinary" => SubSeq(file, 1, 4) = LE32(26))
    /\ (pc \notin {"serializePreBridgeBinary", "serializeBridgeBinary"}
          => /\ Cardinality({i \in DOMAIN wtrace : wtrace[i][1] = "version"}) = 2
             /\ SubSeq(file, BridgeVersionAt + 1, BridgeVersionAt + 4) = LE32(11))

\* C4 witness: a Layout holding version 7 and bridge version 3 was serialized
C4_Witness ==
  Encoding /\ pc = "serialized" /\ src.version = 7 /\ src.bridge.version = 3 /\ given.n = 1

\* the raw version word of the file
RawWord == S32(file[1], file[2], file[3], file[4])

\* C5: version sign rule: a raw word r < 0 decodes to version -r with isModded
\* set, r >= 0 decodes to version r with isModded clear, and the decoded version
\* is never negative, for every 32-bit r, r = -2^31 included.
C5_VersionSignRule ==
  (given.op = "decode" /\ pc # "getVersion")
    => /\ pc # "trapped"
       /\ "version" \in DOMAIN layout
       /\ layout.version >= 0
       /\ (RawWord >= 0 => layout.version = RawWord /\ ~layout.isModded)
       /\ (RawWord < 0 => RawWord = -layout.version /\ layout.isModded)

\* C5 counterexample input: the raw word is -2^31
C5_RawMinInt == given.op = "decode" /\ pc # "getVersion" /\ RawWord = MinInt32

\* the sections of a layout as the format documents them: <<name, first
\* version that has it, last version that has it>>, in file order
SectionTable ==
  << <<"stubKey", 0, MaxInt32>>, <<"anchors", 19, MaxInt32>>, <<"phases", 5, MaxInt32>>,
     <<"bridge", 0, MaxInt32>>, <<"zAxisVehicles", 7, MaxInt32>>,
     <<"vehicles", 0, MaxInt32>>, <<"vehicleStopTriggers", 0, MaxInt32>>,
     <<"themeObjects_OBSOLETE", 0, 19>>, <<"eventTimelines", 0, MaxInt32>>,
     <<"checkpoints", 0, MaxInt32>>, <<"terrainStretches", 0, MaxInt32>>,
     <<"platforms", 0, MaxInt32>>, <<"ramps", 0, MaxInt32>>, <<"phases", 0, 4>>,
     <<"vehicleRestartPhases", 0, MaxInt32>>, <<"flyingObjects", 0, MaxInt32>>,
     <<"rocks", 0, MaxInt32>>, <<"waterBlocks", 0, MaxInt32>>, <<"garbage", 0, 4>>,
     <<"budget", 0, MaxInt32>>, <<"settings", 0, MaxInt32>>,
     <<"customShapes", 9, MaxInt32>>, <<"workshop", 15, MaxInt32>>,
     <<"supportPillars", 17, MaxInt32>>, <<"pillars", 18, MaxInt32>> >>

SectionPresent(row, v) == row[2] <= v /\ v <= row[3]

\* the sections of a layout of version v, the version first
ExpectedSections(v, modded) ==
  LET rows == SelectSeq(SectionTable, LAMBDA row : SectionPresent(row, v))
  IN  <<"version">> \o [i \in DOMAIN rows |-> rows[i][1]]
      \o (IF modded THEN <<"modData">> ELSE <<>>)

Count(s, x) == Cardinality({i \in DOMAIN s : s[i] = x})

\* C6: for every version v >= 0 the decoder reads the sections of a layout in
\* the documented order, each under its version gate, the hydraulics phases
\* exactly once and the mod data last iff the file is modded; a version above
\* 26 is read with the sections of 26 and is not fatal by itself: the only
\* fatal stop of such a file is a byte array of the mod data without a
\* positive length.
C6_SectionOrder ==
  (given.op \in {"decode", "encode"} /\ sections # <<>> /\ layout.version >= 0)
    => /\ IsPrefix(sections, ExpectedSections(layout.version, layout.isModded))
       /\ (pc = "returned" =>
             /\ sections = ExpectedSections(layout.version, layout.isModded)
             /\ Count(sections, "phases") = 1)
       /\ (given.op = "decode" /\ layout.version > MAX_VERSION /\ Terminal =>
             /\ \/ pc = "returned"
                \/ pc = "exit1" /\ given.mod \in {"zero", "negative"}
                                /\ sections[Len(sections)] = "modData"
             /\ sections = ExpectedSections(MAX_VERSION, layout.isModded))

\* C6 witness: a modded layout of version 3 was decoded to its end
C6_Witness ==
  /\ given.op = "decode" /\ pc = "returned" /\ layout.version = 3 /\ layout.isModded
  /\ Count(sections, "garbage") = 1

\* C6 witness of the second case: a layout of a version above 26 was decoded
C6_WitnessAbove == given.op = "decode" /\ pc = "returned" /\ layout.version = 27

\* the fields of the records of a bridge, by name
JointNames == <<"pos", "is_anchor", "is_split", "guid">>

EdgeNames(v) ==
  <<"material_type", "node_a_guid", "node_b_guid", "joint_a_part", "joint_b_part">>
  \o (IF v >= 11 THEN <<"guid">> ELSE <<>>)

SpringNames == <<"normalized_value", "node_a_guid", "node_b_guid", "guid">>

\* a counted block: its count, then the fields of each of its n records
Block(name, fields, n) == <<name>> \o Rep(fields, n)

\* the number of strings in each discarded block of the files decoded
Discarded == MaxJunk

PhaseNames(v, ph) ==
  <<"hydraulics_phase_guid">>
  \o Block("piston_guids", <<"">>, Len(ph.piston_guids))
  \o (IF v > 2 THEN Block("bridge_split_joints", <<"guid", "state">>,
                          Len(ph.bridge_split_joints))
               ELSE Block("garbage_strings", <<"">>, Discarded))
  \o (IF v > 9 THEN <<"disable_new_additions">> ELSE <<>>)

RECURSIVE PhasesNames(_, _, _)
PhasesNames(v, phases, i) ==
  IF i > Len(phases) THEN <<>>
  ELSE PhaseNames(v, phases[i]) \o PhasesNames(v, phases, i + 1)

\* the fields of a bridge b of version v in the order the format documents
ExpectedBridgeNames(v, b) ==
  <<"version">>
  \o (IF v < 2 THEN <<>>
      ELSE Block("joints", JointNames, Len(b.joints))
        \o Block("edges", EdgeNames(v), Len(b.edges))
        \o (IF v >= 7 THEN Block("springs", SpringNames, Len(b.springs)) ELSE <<>>)
        \o Block("pistons", SpringNames, Len(b.pistons))
        \o <<"phases">> \o PhasesNames(v, b.phases, 1)
        \o (IF v = 5 THEN Block("garbage_v5", <<"">>, Discarded) ELSE <<>>)
        \o (IF v >= 6 THEN Block("anchors", JointNames, Len(b.anchors)) ELSE <<>>)
        \o (IF v >= 4 /\ v < 9 THEN <<"garbage_bool">> ELSE <<>>))

\* a bridge buffer was decoded by Deserializer::deserializeBridge to its end
BridgeDecoded == given.op = "bridge" /\ "bridge" \in DOMAIN layout /\ ~Halted(rd)

\* C7: after the int32 version, a bridge of version < 2 reads nothing more and
\* is empty; otherwise the decoder reads joints, edges (the edge GUID iff
\* version >= 11), springs iff version >= 7, pistons, phases (GUID, piston
\* GUIDs, split joints iff version > 2 or else discarded strings, one boolean
\* iff version > 9), discarded strings iff version = 5, anchors iff
\* version >= 6 and one discarded boolean iff 4 <= version < 9, in that order.
C7_BridgeFieldSequence ==
  BridgeDecoded =>
    /\ Names(trace) = ExpectedBridgeNames(layout.bridge.version, layout.bridge)
    /\ (layout.bridge.version < 2 =>
          /\ rd.p = 4
          /\ \A k \in Collections : layout.bridge[k] = <<>>)

\* C7 witness: a bridge of version 5 with one record in every block was decoded
C7_Witness ==
  /\ BridgeDecoded /\ layout.bridge.version = 5 /\ Len(layout.bridge.phases) = 1
  /\ Count(Names(trace), "garbage_v5") = 1 /\ Count(Names(trace), "garbage_bool") = 1

\* C7 witness of the first case: a bridge of version 1 was decoded
C7_WitnessEmpty == BridgeDecoded /\ layout.bridge.version = 1 /\ rd.p = 4

\* what the version of a Bridge b says about its collections
Emptiness(b) ==
  /\ (b.version < 7 => b.springs = <<>>)
  /\ (b.version < 6 => b.anchors = <<>>)
  /\ (b.version < 11 => \A i \in DOMAIN b.edges : b.edges[i].guid = <<>>)
  /\ (b.version < 2 => \A k \in Collections : b[k] = <<>>)

\* C8: a Bridge returned by either bridge decoder has no springs if its
\* version is below 7, no anchors below 6, empty edge GUIDs below 11 and all
\* six collections empty below 2.
C8_BridgeEmptiness ==
  /\ (("bridge" \in DOMAIN layout /\ "version" \in DOMAIN layout.bridge
         /\ given.op # "json" /\ (given.op = "bridge" \/ layout.version > 4))
        => Emptiness(layout.bridge))
  /\ \A i \in DOMAIN simple : ~Halted(simple[i].st) => Emptiness(simple[i].v)

\* C8 witness: both decoders returned a bridge of version 5 whose file holds
\* joints, edges and pistons
C8_Witness ==
  /\ given.op = "bridge" /\ pc = "bridgeDone" /\ given.n = 1
  /\ layout.bridge.version = 5 /\ Len(layout.bridge.edges) = 1
  /\ simple[1].v.version = 5 /\ Len(simple[1].v.pistons) = 1

\* the correction curve in closed form, in thousandths
Curve(v) ==
  IF v < Quarter THEN (IF v <= 0 THEN One ELSE One - 2 * v)
  ELSE IF v > ThreeQuarters THEN (IF v >= One THEN One ELSE Half + 2 * (v - ThreeQuarters))
  ELSE 2 * Abs(v - Half)

\* a bridge older than version 8 holding pistons of raw value given.x was
\* decoded by both decoders
PistonsDecoded ==
  /\ given.op = "bridge" /\ pc = "bridgeDone" /\ given.n >= 1
  /\ given.bver >= 2 /\ given.bver < 8
  /\ ~Halted(rd) /\ ~Halted(simple[1].st)

\* C9: in a bridge of version < 8 a piston value v is replaced by
\* lerp(1.0, 0.5, clamp01(v / 0.25)) if v < 0.25, by
\* lerp(0.5, 1.0, clamp01((v - 0.75) / 0.25)) if v > 0.75 and by
\* 2 * |v - 0.5| otherwise: 0.5 maps to 0.0, 0.25 and 0.75 map to 0.5, a value
\* below 0 or above 1 maps to 1.0 and the result is always within [0, 1].
C9_PistonCorrection ==
  PistonsDecoded =>
    \A b \in {layout.bridge, simple[1].v} :
      /\ Len(b.pistons) = given.n
      /\ \A i \in DOMAIN b.pistons :
           LET w == b.pistons[i].normalized_value
           IN  /\ w = Curve(given.x)
               /\ 0 <= w /\ w <= One
               /\ (given.x = Half => w = 0)
               /\ (given.x \in {Quarter, ThreeQuarters} => w = Half)
               /\ (given.x < 0 \/ given.x > One => w = One)

\* C9 witness: a piston of raw value 0.75 was decoded to 0.5
C9_Witness ==
  PistonsDecoded /\ given.x = ThreeQuarters /\ layout.bridge.pistons[1].normalized_value = Half

\* C9 witness of the upper branch: a piston of raw value 0.9 was decoded to 0.8
C9_WitnessUpper ==
  PistonsDecoded /\ given.x = 900 /\ layout.bridge.pistons[1].normalized_value = 800

\* the category the schema of a save slot expects of each entry
SchemaTypes ==
  [root |-> {"StartOfNode"}, version |-> {"Integer"}, physicsVersion |-> {"Integer"},
   slotId |-> {"Integer"}, displayName |-> {"String"}, fileName |-> {"String"},
   budget |-> {"Integer"}, lastWriteTimeTicks |-> {"Integer"},
   bridgeNode |-> {"StartOfNode"}, bridge |-> {"PrimitiveArrayType"},
   bridgeEnd |-> {"EndOfNodeType"}, thumbNode |-> {"Null", "StartOfNode"},
   thumbnail |-> {"PrimitiveArrayType"}, thumbEnd |-> {"EndOfNodeType"},
   unlimitedMaterials |-> {"Boolean"}, unlimitedBudget |-> {"Boolean"},
   end |-> {"EndOfNodeType"}]

\* the name the schema expects of each named field
SchemaNames ==
  [version |-> AssertedNames.m_Version, physicsVersion |-> AssertedNames.m_PhysicsVersion, slotId |-> AssertedNames.m_SlotID,
   displayName |-> AssertedNames.m_DisplayName, fileName |-> AssertedNames.m_SlotFilename, budget |-> AssertedNames.m_Budget,
   lastWriteTimeTicks |-> AssertedNames.m_LastWriteTimeTicks, thumbNode |-> AssertedNames.m_Thumb,
   unlimitedMaterials |-> AssertedNames.m_UsingUnlimitedMaterials,
   unlimitedBudget |-> AssertedNames.m_UsingUnlimitedBudget]

\* the entries whose category deserializeSlot does not assert: those read by
\* enterNode and the m_Thumb entry
Unasserted == {"root", "bridgeNode", "thumbNode"}

\* the peeked entry t = <<step, category, name, offset>> has the category and
\* the name the schema expects at its position
Conforms(t) ==
  /\ t[2] \in SchemaTypes[t[1]]
  /\ (t[1] \in DOMAIN SchemaNames => t[3] = SchemaNames[t[1]])

\* t conforms in what deserializeSlot asserts of it
ConformsAsserted(t) ==
  /\ (t[1] \notin Unasserted => t[2] \in SchemaTypes[t[1]])
  /\ (t[1] \in DOMAIN SchemaNames => t[3] = SchemaNames[t[1]])

\* decoding has stopped and no SaveSlot is returned
SlotFatal == pc \in {"aborted", "exit1", "failed"}

\* the offset after the tag and the name of the entry peeked at offset off
HeaderEnd(off) == peekEntryType(file, [Reader0 EXCEPT !.p = off]).st.p

\* C10 as stated: whenever a peeked entry's category or name differs from the
\* one the schema expects at its position, decoding stops with a fatal error
\* and no SaveSlot is returned.
C10_EveryMismatchFatal ==
  given.op = "slot" =>
    \A i \in DOMAIN trace : ~Conforms(trace[i]) => SlotFatal

\* C10 amended: whenever a peeked entry differs from what deserializeSlot
\* asserts at its position (category and name of the seven scalar fields and
\* of the two booleans, category of the two array entries and of the three
\* end-of-node entries, name of the m_Thumb entry), decoding stops with a fatal
\* error at that entry and no SaveSlot is returned; the entries read by
\* enterNode and the category of the m_Thumb entry are not checked.  A first
\* entry after the root node that is not an Integer named m_Version fails
\* before any value byte of that entry is consumed.
C10_AssertedMismatchFatal ==
  given.op = "slot" =>
    /\ \A i \in DOMAIN trace :
         ~ConformsAsserted(trace[i]) =>
           /\ SlotFatal
           /\ i = Len(trace)
           /\ trace[i][1] \notin DOMAIN slot
           /\ (pc = "aborted" => rd.p = HeaderEnd(trace[i][4]))
    /\ (Len(trace) >= 2 /\ (trace[2][2] # "Integer" \/ trace[2][3] # AssertedNames.m_Version)
          => /\ pc = "aborted"
             /\ Len(trace) = 2
             /\ rd.p = HeaderEnd(trace[2][4])
             /\ slot = <<>>)
    /\ (pc = "slotReturned" => \A i \in DOMAIN trace : ConformsAsserted(trace[i]))

\* C10 witness: the first entry after the root node is an Integer of another
\* name, and decoding was aborted with only its tag and name consumed
C10_Witness ==
  /\ given.op = "slot" /\ pc = "aborted" /\ Len(trace) = 2
  /\ trace[2][2] = "Integer" /\ trace[2][3] # AssertedNames.m_Version
  /\ rd.p = HeaderEnd(trace[2][4]) /\ rd.p < Len(file)

\* C10 witness of the unchecked entries: a SaveSlot was returned from a file
\* whose root entry is not a node start
C10_WitnessUnchecked ==
  /\ given.op = "slot" /\ pc = "slotReturned" /\ trace[1][2] # "StartOfNode"

\* the steps of a successful deserializeSlot run as the format documents
\* them; a Null thumbnail has no array and no end of node
SlotSequence(null) ==
  <<"root", "version", "physicsVersion", "slotId", "displayName", "fileName",
    "budget", "lastWriteTimeTicks", "bridgeNode", "bridge", "bridgeEnd", "thumbNode">>
  \o (IF null THEN <<>> ELSE <<"thumbnail", "thumbEnd">>)
  \o <<"unlimitedMaterials", "unlimitedBudget", "end">>

\* the entries are peeked in the documented order; in a successful run every
\* step was taken, each entry lies after the one before it, and the last write
\* time is the eight bytes after its tag and name
SlotInSequence ==
  /\ \E null \in BOOLEAN : IsPrefix(Names(trace), SlotSequence(null))
  /\ (pc = "slotReturned" =>
        /\ Names(trace) = SlotSequence(trace[12][2] = "Null")
        /\ \A i \in DOMAIN trace : i > 1 => trace[i - 1][4] < trace[i][4]
        /\ trace[9][4] = HeaderEnd(trace[8][4]) + 8
        /\ slot.lastWriteTimeTicks = SubSeq(file, trace[9][4] - 7, trace[9][4]))

\* C11 as stated: every successful deserializeSlot run consumes, in this order
\* and each once, the root node entry, the Integers m_Version, m_PhysicsVersion
\* and m_SlotID, the Strings m_DisplayName and m_SlotFilename, the Integers
\* m_Budget and m_LastWriteTimeTicks (eight bytes, little-endian), the bridge
\* container node with a PrimitiveArray and an EndOfNode, the m_Thumb field,
\* the Booleans m_UsingUnlimitedMaterials and m_UsingUnlimitedBudget and an
\* EndOfNode.
C11_SlotFieldSequence ==
  given.op = "slot" =>
    /\ SlotInSequence
    /\ (pc = "slotReturned" =>
          \A i \in DOMAIN trace :
            IF trace[i][1] = "thumbNode" THEN trace[i][3] = SchemaNames.thumbNode
            ELSE Conforms(trace[i]))

\* C11 amended: the order, the categories and the names are those stated,
\* except that the entry consumed where the root node and where the bridge
\* container node are expected may be of any category: enterNode asserts
\* nothing, and an entry that is not a node start is consumed as its tag (and
\* name) alone.
C11_SlotFieldSequenceAsserted ==
  given.op = "slot" =>
    /\ SlotInSequence
    /\ (pc = "slotReturned" => \A i \in DOMAIN trace : ConformsAsserted(trace[i]))

\* C11 witness: a slot file with a thumbnail node was decoded to its end, all
\* seventeen entries consumed
C11_Witness ==
  /\ given.op = "slot" /\ pc = "slotReturned" /\ Len(trace) = 17
  /\ trace[12][2] = "StartOfNode" /\ slot.lastWriteTimeTicks = <<1, 2, 3, 4, 5, 6, 7, 8>>

\* C11 witness of the Null thumbnail: fifteen entries were consumed
C11_WitnessNull ==
  /\ given.op = "slot" /\ pc = "slotReturned" /\ Len(trace) = 15 /\ trace[12][2] = "Null"

\* the check c = <<value, min, max, ...>> has its value outside [min, max]
Hard(c) == c[1] < c[2] \/ c[1] > c[3]

\* the number of such checks before the i-th check of the run
HardBefore(i) == Cardinality({j \in 1..(i - 1) : Hard(trace[j])})

\* the run was ended by exit(1) in its i-th check
AbortedAt(i) == pc = "exit1" /\ rd.ab /\ i = Len(trace)

\* C12: across one run, the first two values outside the hard envelope
\* [min, max] passed to ensureReasonable are only logged and the run goes on;
\* the third aborts the process with exit code 1; the offense counter never
\* decreases and is shared by all checks of the run.  (The counter starts at 1
\* and counts the offenses; once it has reached 3, a value that is only outside
\* the warning envelope ends the run as well.)
C12_GuardEscalation ==
  /\ rd.un \in 1..3
  /\ (given.op = "guard" =>
        /\ \A i \in DOMAIN trace :
             /\ trace[i][6] = 1 + HardBefore(i)
             /\ (i > 1 => trace[i - 1][6] <= trace[i][6])
             /\ (Hard(trace[i]) /\ HardBefore(i) < 2 => ~AbortedAt(i))
             /\ (Hard(trace[i]) /\ HardBefore(i) >= 2 => AbortedAt(i))
        /\ (trace # <<>> => rd.un >= trace[Len(trace)][6]))

\* C12 witness: the third value outside its hard envelope ended the run, after
\* two that were passed to checks with different envelopes
C12_Witness ==
  /\ given.op = "guard" /\ pc = "exit1" /\ Len(trace) = 4
  /\ Hard(trace[1]) /\ ~Hard(trace[2]) /\ Hard(trace[3]) /\ Hard(trace[4])
  /\ trace[1][3] # trace[3][3] /\ rd.un = 3

\* C12 witness of the first two offenses: the run went on after both
C12_WitnessContinues ==
  /\ given.op = "guard" /\ pc = "ensureReasonable" /\ Len(trace) = 3
  /\ HardBefore(3) = 2 /\ ~Hard(trace[3]) /\ rd.un = 3

\* C13: the Layout load_json builds from the document dump_json wrote holds,
\* in every field the document has, what the dumped Layout held: dumping it
\* again gives the same document (collections element by element, budget,
\* settings, workshop, bridge, mods; the placeholders are null in both)
C13_JsonRoundTrip ==
  pc = "loaded" => dump_json(src) = dump_json(layout)

\* the entries of the trace that start a garbage block, and the first entry
\* of the section nm
GarbageBlocks == {i \in DOMAIN trace : trace[i][1] = "garbage" /\ trace[i][2] = "count"}

CountOf(nm) == CHOOSE i \in DOMAIN trace : trace[i][1] = nm /\ trace[i][2] = "count"

\* a decode of a layout of version <= 4 that returned
LegacyDecoded ==
  given.op = "decode" /\ pc = "returned" /\ layout.version <= 4

\* the entries of one garbage block after its count: per entry a string, then
\* a count and that many strings
GarbageEntries ==
  Rep(<<"garbage_string", "garbage_strings">> \o Rep(<<"">>, MaxJunk), MaxJunk)

\* C14 (as stated): of a layout of version <= 4 the decoder consumes a garbage
\* block right after the in-line joints, edges and pistons, before the
\* vehicles, and a second one after the water blocks
C14_TwoGarbageBlocks ==
  LegacyDecoded =>
    /\ \E i \in GarbageBlocks : CountOf("pistons") < i /\ i < CountOf("vehicles")
    /\ \E i \in GarbageBlocks : CountOf("waterBlocks") < i

\* C14 (amended): of a layout of version <= 4 the in-line pistons are followed
\* at once by the vehicles; the only garbage block is the one after the water
\* blocks, a count and per entry one string and a counted list of strings,
\* and the budget follows it
C14_OneGarbageBlock ==
  LegacyDecoded =>
    /\ \A i \in (CountOf("pistons") + 1)..(CountOf("vehicles") - 1) :
         trace[i][1] \in {"normalized_value", "node_a_guid", "node_b_guid", "guid"}
    /\ Cardinality(GarbageBlocks) = 1
    /\ \A i \in GarbageBlocks :
         /\ CountOf("waterBlocks") < i
         /\ \A k \in (CountOf("waterBlocks") + 1)..(i - 1) :
              trace[k][1] \in {"pos", "width", "height"}
         /\ Len(trace) >= i + Len(GarbageEntries) + 1
         /\ Names(SubSeq(trace, i + 1, i + Len(GarbageEntries))) = GarbageEntries
         /\ trace[i + Len(GarbageEntries) + 1][1] = "cash"

\* C14 witness: a version 4 layout with elements in every list was decoded
\* and its garbage block consumed
C14_Witness ==
  /\ LegacyDecoded /\ layout.version = 4 /\ given.n = 1
  /\ GarbageBlocks # {}
  /\ Len(layout.bridge.pistons) = 1

\* the bridges a finished run decoded from pistons of raw value given.x: those
\* of the two bridge decoders, or the bridge of a layout
DecodedBridges ==
  IF given.op = "bridge" /\ pc = "bridgeDone" /\ ~Halted(rd) /\ ~Halted(simple[1].st)
       /\ given.bver >= 2
    THEN {layout.bridge, simple[1].v}
  ELSE IF given.op = "decode" /\ pc = "returned" THEN {layout.bridge}
  ELSE {}

\* C15: every decoded piston holds fixPistonNormalizedValue(raw) if the bridge
\* version is below 8 and the raw value itself from version 8 on, in both
\* bridge decoders: the correction is applied once (the value is not that of
\* a second application) and only below version 8
C15_PistonFixBelow8 ==
  \A b \in DecodedBridges :
    /\ Len(b.pistons) = given.n
    /\ \A i \in DOMAIN b.pistons :
         b.pistons[i].normalized_value =
           IF b.version < 8 THEN fixPistonNormalizedValue(given.x) ELSE given.x

\* C15 witness: both decoders read a version 7 piston of raw value 0.75 and
\* hold 0.5, which a second application would turn into 0
C15_Witness ==
  /\ given.op = "bridge" /\ given.bver = 7 /\ given.x = ThreeQuarters
  /\ Cardinality(DecodedBridges) = 2
  /\ \A b \in DecodedBridges :
       /\ b.pistons[1].normalized_value = Half
       /\ fixPistonNormalizedValue(Half) # Half

\* C15 witness: both decoders read a version 8 piston of raw value 0.75 and
\* hold 0.75
C15_WitnessFrom8 ==
  /\ given.op = "bridge" /\ given.bver = 8 /\ given.x = ThreeQuarters
  /\ DecodedBridges # {}
  /\ \A b \in DecodedBridges : b.pistons[1].normalized_value = ThreeQuarters

\* the category of each discriminant, a Named and an Unnamed variant side by
\* side: <<category, Named discriminants, Unnamed discriminants>>
PeekCategories ==
  << <<"StartOfNode", {1, 3}, {2, 4}>>,
     <<"EndOfNodeType", {}, {5}>>, <<"StartOfArrayType", {}, {6}>>,
     <<"EndOfArrayType", {}, {7}>>, <<"PrimitiveArrayType", {}, {8}>>,
     <<"InternalReference", {9}, {10}>>,
     <<"ExternalReferenceByIndex", {11}, {12}>>,
     <<"ExternalReferenceByGuid", {13}, {14}>>,
     <<"Integer", {15, 17, 19, 21, 23, 25, 27, 29}, {16, 18, 20, 22, 24, 26, 28, 30}>>,
     <<"FloatingPoint", {31, 33, 35}, {32, 34, 36}>>,
     <<"String", {37, 39}, {38, 40}>>,
     <<"Guid", {41}, {42}>>, <<"Boolean", {43}, {44}>>, <<"Null", {45}, {46}>>,
     <<"EndOfStreamType", {}, {49}>>,
     <<"ExternalReferenceByString", {50}, {51}>> >>

\* the bytes of the name string of a peeked stream
PeekName == SubSeq(file, 2, Len(file) - 1)

\* C16: peekEntryType consumes the discriminant byte, and the name string
\* exactly when the discriminant is a Named variant, and nothing after it;
\* a Named and an Unnamed variant give the same category (the eight integer
\* widths Integer, Float, Double and Decimal FloatingPoint, String and Char
\* String), an Unnamed one the empty name; the end of the file gives
\* EndOfStream; TypeName and TypeID exit; any other discriminant gives Invalid
\* and the run goes on
C16_PeekMapsDiscriminant ==
  (given.op = "peek" /\ pc # "peekEntryType") =>
    LET c == given.pos
        e == trace[1]
        rows == {i \in DOMAIN PeekCategories :
                   c \in PeekCategories[i][2] \cup PeekCategories[i][3]}
    IN  /\ (pc = "exit1") = (c \in {47, 48})
        /\ pc = "exit1" \/ pc = "peeked"
        /\ c < 0 => e[2] = "EndOfStreamType" /\ e[3] = <<>> /\ rd.p = 0
        /\ pc = "peeked" /\ c >= 0 =>
             /\ \A i \in rows :
                  /\ e[2] = PeekCategories[i][1]
                  /\ c \in PeekCategories[i][2] =>
                       /\ rd.p = 1 + Len(PeekName)
                       /\ e[3] = (IF given.thumb THEN <<88, 195, 169>> ELSE m_X)
                  /\ c \in PeekCategories[i][3] => rd.p = 1 /\ e[3] = <<>>
             /\ rows = {} => e[2] = "InvalidType" /\ e[3] = <<>> /\ rd.p = 1
             /\ rd.ok /\ rd.p < Len(file)

\* C16 witness: a NamedInt entry was peeked: Integer, its name, and the cursor
\* on the byte after the name
C16_Witness ==
  /\ given.op = "peek" /\ pc = "peeked" /\ given.pos = 23 /\ ~given.thumb
  /\ trace[1][2] = "Integer" /\ trace[1][3] = m_X /\ rd.p = 9 /\ file[rd.p + 1] = 7

\* C16 witness: a discriminant that is no entry type was peeked
C16_WitnessInvalid ==
  /\ given.op = "peek" /\ pc = "peeked" /\ given.pos = 52
  /\ trace[1][2] = "InvalidType" /\ rd.p = 1

\* the slot steps that enter a node: the root, the bridge container, the
\* thumbnail
NodeSteps == {"root", "bridgeNode", "thumbNode"}

\* the node entries of a slot run whose node-start entry is followed by a
\* TypeID descriptor, and after which the decoder peeked the next entry
TypeIDNodes ==
  {k \in 1..(Len(trace) - 1) :
     /\ trace[k][1] \in NodeSteps /\ trace[k][2] = "StartOfNode"
     /\ HeaderEnd(trace[k][4]) < Len(file) /\ file[HeaderEnd(trace[k][4]) + 1] = 48}

\* C17: on each of the three node entries of a slot file (root, bridge
\* container, thumbnail), when the node-start entry is followed by a TypeID
\* descriptor, the decoder consumes the descriptor byte and then exactly the
\* four bytes of the node id before it peeks the next entry: five bytes on
\* every node-entry path
C17_NodeEntryConsumesFive ==
  given.op = "slot" => \A k \in TypeIDNodes : trace[k + 1][4] = HeaderEnd(trace[k][4]) + 5

\* C17 on the two enterNode() paths alone: the root and the bridge container
\* consume the descriptor byte and the four bytes of the node id
C17_EnterNodeConsumesFive ==
  given.op = "slot" =>
    \A k \in TypeIDNodes :
      trace[k][1] # "thumbNode" => trace[k + 1][4] = HeaderEnd(trace[k][4]) + 5

\* C17: a bridge container entered through a TypeID descriptor, the next entry
\* peeked five bytes after the name
C17_EnterNodeReached ==
  /\ given.op = "slot" /\ given.mut = "typeid" /\ given.pos = 9
  /\ \E k \in TypeIDNodes : trace[k][1] = "bridgeNode" /\ trace[k + 1][1] = "bridge"

\* C17: the thumbnail node entered through a TypeID descriptor, the next entry
\* peeked nine bytes after the name
C17_ThumbConsumesNine ==
  /\ given.op = "slot" /\ given.mut = "typeid" /\ given.pos = 12
  /\ \E k \in TypeIDNodes : trace[k][1] = "thumbNode" /\ trace[k + 1][4] = HeaderEnd(trace[k][4]) + 9

\* C18: the m_Thumb entry is asserted by name whether it is Null or a node;
\* a Null m_Thumb ends the field after its tag and its name: no byte more is
\* consumed, no node is entered, no thumbnail array and no end of node are
\* read, slot.thumbnail stays null, and the next entry peeked is the one of
\* m_UsingUnlimitedMaterials, at the offset right after the name
C18_NullThumbConsumesNothing ==
  given.op = "slot" =>
    \A k \in DOMAIN trace :
      trace[k][1] = "thumbNode" =>
        /\ trace[k][3] # AssertedNames.m_Thumb => pc = "aborted" /\ Len(trace) = k
        /\ trace[k][2] = "Null" /\ trace[k][3] = AssertedNames.m_Thumb =>
             /\ "thumbnail" \notin DOMAIN slot
             /\ \A i \in DOMAIN sections : sections[i] \notin {"thumbnail", "thumbEnd"}
             /\ Len(trace) = k =>
                  /\ rd.p = HeaderEnd(trace[k][4])
                  /\ pc = "deserializeSlot"
                  /\ deserializeSlot[step].n = "unlimitedMaterials"
             /\ Len(trace) > k =>
                  /\ trace[k + 1][1] = "unlimitedMaterials"
                  /\ trace[k + 1][4] = HeaderEnd(trace[k][4])

\* C18 witness: a slot with a Null m_Thumb was returned, its thumbnail null
\* and m_UsingUnlimitedMaterials read right after the name m_Thumb
C18_Witness ==
  /\ given.op = "slot" /\ pc = "slotReturned" /\ ~given.thumb
  /\ "thumbnail" \notin DOMAIN slot /\ slot.unlimitedMaterials
  /\ \E k \in DOMAIN trace :
       /\ trace[k][1] = "thumbNode" /\ trace[k][2] = "Null"
       /\ trace[k + 1][3] = AssertedNames.m_UsingUnlimitedMaterials
       /\ trace[k + 1][4] = trace[k][4] + 1 + 4 + 1 + Len(AssertedNames.m_Thumb)

\* C18 witness: the name of a Null entry in the place of m_Thumb was refused
C18_WitnessNullName ==
  /\ given.op = "slot" /\ pc = "aborted" /\ ~given.thumb
  /\ trace[Len(trace)][1] = "thumbNode" /\ trace[Len(trace)][2] = "Null"
  /\ trace[Len(trace)][3] = m_X

\* C18 witness: the name of a node entry in the place of m_Thumb was refused
C18_WitnessNodeName ==
  /\ given.op = "slot" /\ pc = "aborted" /\ given.thumb
  /\ trace[Len(trace)][1] = "thumbNode" /\ trace[Len(trace)][2] = "StartOfNode"
  /\ trace[Len(trace)][3] = m_X

\* the count and the size of the array entry peeked at offset off
ArrayCount(off) == Slot_readInt(file, [Reader0 EXCEPT !.p = HeaderEnd(off)]).v
ArraySize(off) == Slot_readInt(file, [Reader0 EXCEPT !.p = HeaderEnd(off) + 4]).v

\* count * size is below 2^31 (the offsets of a file are)
Below31(count, size) == count = 0 \/ size = 0 \/ size <= MaxInt32 \div count

\* the primitive array entries of a slot run whose count and size were read,
\* both non-negative, with the payload in the file when the file can hold it
ArraysRead ==
  {k \in DOMAIN trace :
     /\ trace[k][1] \in {"bridge", "thumbnail"} /\ trace[k][2] = "PrimitiveArrayType"
     /\ HeaderEnd(trace[k][4]) + 8 <= Len(file)
     /\ ArrayCount(trace[k][4]) >= 0 /\ ArraySize(trace[k][4]) >= 0
     /\ Below31(ArrayCount(trace[k][4]), ArraySize(trace[k][4])) =>
          HeaderEnd(trace[k][4]) + 8 + ArrayCount(trace[k][4]) * ArraySize(trace[k][4])
            <= Len(file)}

\* the decoder went on after the array entry trace[k] with its cursor
\* count * size bytes after the size; no offset of the file is one of a
\* product of 2^31 or more
ArrayConsumed(k) ==
  LET count == ArrayCount(trace[k][4])
      size == ArraySize(trace[k][4])
      end == HeaderEnd(trace[k][4]) + 8 + count * size
  IN  /\ Below31(count, size)
      /\ IF Len(trace) > k THEN trace[k + 1][4] = end ELSE rd.p = end

\* C19: after a primitive array entry the decoder reads the 32-bit count and
\* the 32-bit size and consumes exactly count * size bytes of payload, the
\* mathematical product, for every non-negative count and size, those with
\* count * size >= 2^31 too; the cursor of the slot stream moves on by that
\* many bytes whatever the bridge decoder did with the payload
C19_ArrayConsumesProduct ==
  given.op = "slot" => \A k \in ArraysRead : ArrayConsumed(k)

\* C19 for the products below 2^31
C19_ArrayConsumesFittingProduct ==
  given.op = "slot" =>
    \A k \in ArraysRead :
      Below31(ArrayCount(trace[k][4]), ArraySize(trace[k][4])) => ArrayConsumed(k)

\* C19: a thumbnail array of 2^16 elements of size 2^16 was read as an array
\* of no byte, and the decoder went on at the byte after the size
C19_WrappedToZero ==
  /\ given.op = "slot" /\ given.mut = "wrap" /\ pc = "deserializeSlot"
  /\ trace # <<>> /\ trace[Len(trace)][1] = "thumbnail" /\ Len(trace) \in ArraysRead
  /\ "thumbnail" \in DOMAIN slot /\ slot.thumbnail = <<>>
  /\ rd.p = HeaderEnd(trace[Len(trace)][4]) + 8

\* C19: a thumbnail array of 2^16 elements of size 2^15 stopped the decoder
C19_WrappedNegative ==
  /\ given.op = "slot" /\ given.mut = "wrapneg" /\ given.pos = 13
  /\ pc \in {"trapped", "exit1"} /\ trace # <<>> /\ trace[Len(trace)][1] = "thumbnail"

\* C19: an array of one element of two bytes was consumed
C19_WideConsumed ==
  /\ given.op = "slot" /\ given.mut = "wide" /\ pc = "slotReturned"
  /\ "thumbnail" \in DOMAIN slot /\ slot.thumbnail = <<9, 9>>

\* the save data entries of the decoded file that have a name, in file order
RECURSIVE NamedEntries(_)
NamedEntries(es) ==
  IF es = <<>> THEN <<>>
  ELSE (IF es[1][1] = <<>> THEN <<>>
        ELSE << [data |-> es[1][3], name |-> es[1][1], version |-> es[1][2]] >>)
       \o NamedEntries(Tail(es))

\* the named save data entries of a file whose byte array has no positive
\* length
BadPayloads(mod) ==
  {i \in DOMAIN ModSaveEntries(mod) :
     /\ ModSaveEntries(mod)[i][1] # <<>>
     /\ ModSaveEntries(mod)[i][3] \in {<<>>, <<-1>>}}

\* C20: on a file with a mod list whose byte arrays have a positive length,
\* at the end of the list
\* deserializePTFModData records the cursor
\* and compares it with the end of the stream: at the end it returns with no
\* save data; otherwise the cursor is back where it was, the 32-bit count of
\* save data entries is read from there, an entry whose identifier has an
\* empty name is skipped without a payload being read, and mod_save_data
\* holds one element per entry with a name: the decoder returns with the
\* whole file consumed, to the byte
C20_ModDataProbeRestores ==
  (/\ given.op = "decode" /\ given.mod # "none" /\ BadPayloads(given.mod) = {}
   /\ \E i \in DOMAIN sections : sections[i] = "modData") =>
    /\ pc = "returned"
    /\ rd.p = Len(file)
    /\ Len(layout.modData.mods) = 1
    /\ layout.modData.mod_save_data = NamedEntries(ModSaveEntries(given.mod))
    /\ Len(layout.modData.mod_save_data) =
         Cardinality({i \in DOMAIN ModSaveEntries(given.mod) :
                        ModSaveEntries(given.mod)[i][1] # <<>>})
    /\ given.mod = "mods" => layout.modData.mod_save_data = <<>>

\* C20 witness: a file whose first save data entry has no name and whose
\* second has one and two bytes was decoded to its end
C20_Witness ==
  /\ given.op = "decode" /\ pc = "returned" /\ given.mod = "save"
  /\ Len(layout.modData.mod_save_data) = 1
  /\ layout.modData.mod_save_data[1].data = <<7, 9>>
  /\ rd.p = Len(file)

\* C20 witness: a file that ends after the mod list was decoded
C20_WitnessAtEnd ==
  /\ given.op = "decode" /\ pc = "returned" /\ given.mod = "mods"
  /\ layout.modData.mod_save_data = <<>> /\ Len(layout.modData.mods) = 1

\* C20 witness: a file with three save data entries, two of them without a
\* name, was decoded
C20_WitnessSkips ==
  /\ given.op = "decode" /\ pc = "returned" /\ given.mod = "skips"
  /\ Len(layout.modData.mod_save_data) = 1
  /\ layout.modData.mod_save_data[1].name = <<110>>

\* C20 witness: a file with a save data count of 0 was decoded
C20_WitnessNoEntries ==
  /\ given.op = "decode" /\ pc = "returned" /\ given.mod = "save0"
  /\ layout.modData.mod_save_data = <<>> /\ rd.p = Len(file)

\* the bytes of the first i save data entries of a file; those of an entry
\* without a positive length end with its length
RECURSIVE BytesUpTo(_, _)
BytesUpTo(es, i) ==
  IF i = 0 THEN <<>> ELSE BytesUpTo(es, i - 1) \o ModSaveBytes(es[i])

\* the mod data of the decoded file were read
ModDataRead ==
  /\ given.op = "decode" /\ given.mod # "none"
  /\ \E i \in DOMAIN sections : sections[i] = "modData"

\* C21: readByteArray ends the process with exit code 1 whenever the 32-bit
\* length it reads is 0 or negative: a layout file with a mod payload of such
\* a length is not decoded, no Layout is returned, and nothing after the
\* length is consumed; a payload of a positive length is consumed by exactly
\* that many bytes
C21_NonPositiveLengthFatal ==
  ModDataRead =>
    LET es == ModSaveEntries(given.mod)
        bad == BadPayloads(given.mod)
        first == CHOOSE i \in bad : \A j \in bad : i <= j
    IN  /\ (pc = "exit1") = (bad # {})
        /\ (pc = "returned") = (bad = {})
        /\ bad # {} =>
              rd.p = Len(file) - Len(BytesUpTo(es, Len(es))) + Len(BytesUpTo(es, first))
        /\ bad = {} =>
              /\ rd.p = Len(file)
              /\ layout.modData.mod_save_data = NamedEntries(es)

\* C21 witness: a mod payload of length 0 ended the decoding with exit code 1
C21_Witness ==
  /\ ModDataRead /\ given.mod = "zero" /\ pc = "exit1" /\ rd.ab
  /\ rd.p < Len(file) /\ SubSeq(file, rd.p - 3, rd.p) = <<0, 0, 0, 0>>

\* C21 witness: a mod payload of length -1 ended the decoding with exit code 1
C21_WitnessNegative ==
  /\ ModDataRead /\ given.mod = "negative" /\ pc = "exit1"
  /\ SubSeq(file, rd.p - 3, rd.p) = <<255, 255, 255, 255>>

\* C21 witness: a mod payload of two bytes was consumed and the layout returned
C21_WitnessPositive ==
  /\ ModDataRead /\ given.mod = "save" /\ pc = "returned" /\ rd.p = Len(file)
  /\ layout.modData.mod_save_data[1].data = <<7, 9>>

\* the last of the strings ss that is not empty, the empty string if none is
RECURSIVE LastNonEmpty(_)
LastNonEmpty(ss) ==
  IF ss = <<>> THEN <<>>
  ELSE IF ss[Len(ss)] # <<>> THEN ss[Len(ss)]
  ELSE LastNonEmpty(SubSeq(ss, 1, Len(ss) - 1))

\* C22: from layout version 7 on an event unit consumes exactly one string,
\* which becomes its GUID; below version 7 it always consumes exactly three
\* strings and its GUID is the last of the three that is not empty, or the
\* empty string if all three are empty
C22_EventUnitStrings ==
  given.op = "unit" /\ pc # "deserializeEventUnit" =>
    LET ss == UnitStrings(given)
        len(i) == 2 + Len(ss[i])
    IN  /\ pc = "unitRead"
        /\ given.ver >= 7 => rd.p = len(1) /\ layout.guid = ss[1]
        /\ given.ver < 7 =>
              /\ rd.p = len(1) + len(2) + len(3)
              /\ layout.guid = LastNonEmpty(ss)

\* C22 witness: a unit of version 6 whose second string alone is not empty
C22_Witness ==
  /\ given.op = "unit" /\ pc = "unitRead" /\ given.ver = 6 /\ given.pos = 2
  /\ layout.guid = <<98, 50>> /\ rd.p = 8 /\ file[rd.p + 1] = 7

\* C22 witness: a unit of version 6 whose three strings are empty
C22_WitnessEmpty ==
  /\ given.op = "unit" /\ pc = "unitRead" /\ given.ver = 6 /\ given.pos = 0
  /\ layout.guid = <<>> /\ rd.p = 6

\* C22 witness: a unit of version 7 whose first string is empty
C22_WitnessOne ==
  /\ given.op = "unit" /\ pc = "unitRead" /\ given.ver = 7 /\ given.pos = 6
  /\ layout.guid = <<>> /\ rd.p = 2

\* the number of bytes of a value of a wire kind
WireSize ==
  [bool |-> 1, i32 |-> 4, f32 |-> 4, count |-> 4, vec2 |-> 8, vec3 |-> 12, quat |-> 16,
   color |-> 3]

\* the trace entries tr[from..] are of the wire kinds ks, one right after the
\* other, and the entry after them is at the byte after the last
ReadsInARow(tr, from, ks) ==
  /\ from + Len(ks) <= Len(tr)
  /\ \A i \in DOMAIN ks :
       /\ tr[from + i - 1][2] = ks[i]
       /\ tr[from + i][3] = tr[from + i - 1][3] + WireSize[ks[i]]

\* a layout file holding one element per list was decoded
DecodedOne == given.op = "decode" /\ pc = "returned" /\ given.n = 1

\* the index in the trace of the count of the section nm
CountAt(nm) == CHOOSE k \in DOMAIN trace : trace[k][1] = nm /\ trace[k][2] = "count"

\* what a ramp reads after its two flip booleans, as wire kinds
RampTail(version) ==
  (IF version >= 23 THEN <<"bool">> ELSE <<>>)
  \o (IF version >= 22 THEN <<"bool">> ELSE <<"i32">>)
  \o (IF version >= 13 THEN <<"count", "vec2">> ELSE <<>>)

\* C23: after its two flip booleans a ramp consumes a boolean for hide_legs
\* iff version >= 23 (hide_legs is false otherwise), then exactly one of a
\* boolean stored as flipped_legs (version >= 25), a discarded boolean
\* (22 <= version < 25) and a discarded 32-bit int (version < 22), then the
\* list of line points iff version >= 13; the height stored is the absolute
\* value of the height read, so it is never below 0
C23_RampTail ==
  DecodedOne =>
    LET v == layout.version
        k == CountAt("ramps")
        r == layout.ramps[1]
    IN  /\ trace[k + 8][1] = "flipped_horizontal"
        /\ ReadsInARow(trace, k + 8, <<"bool">> \o RampTail(v))
        /\ trace[k + 9 + Len(RampTail(v))][1] \in {"phases", "vehicleRestartPhases"}
        /\ r.hide_legs = (v >= 23)
        /\ r.flipped_legs = (v >= 25)
        /\ Len(r.line_points) = (IF v >= 13 THEN 1 ELSE 0)
        /\ r.height = Half /\ r.height >= 0
        /\ S32(file[trace[k + 4][3] + 1], file[trace[k + 4][3] + 2],
               file[trace[k + 4][3] + 3], file[trace[k + 4][3] + 4]) = -Half

\* C23 witness: a ramp of version 23 was decoded: the hide-legs flag, a
\* discarded boolean, one line point, and its height of -0.5 stored as 0.5
C23_Witness ==
  /\ DecodedOne /\ layout.version = 23
  /\ layout.ramps[1].hide_legs /\ ~layout.ramps[1].flipped_legs
  /\ layout.ramps[1].height = Half /\ Len(layout.ramps[1].line_points) = 1

\* C23 witness: a ramp of version 12 was decoded: a discarded int, no line
\* points
C23_WitnessOld ==
  /\ DecodedOne /\ layout.version = 12
  /\ ~layout.ramps[1].hide_legs /\ layout.ramps[1].line_points = <<>>

\* what a custom shape reads after collides_with_nodes up to the count of its
\* dynamic anchors, as wire kinds
ShapeTail(version) ==
  (IF version >= 25 THEN <<"bool">> ELSE <<>>)
  \o <<"f32">>
  \o (IF version >= 10 THEN <<"color">> ELSE <<"i32">>)
  \o <<"f32">>
  \o (IF version >= 14 THEN <<"f32">> ELSE <<>>)
  \o (IF version >= 24 THEN <<"f32", "f32">> ELSE <<>>)
  \o <<"count", "vec2", "count", "vec3", "count">>

\* the float at offset off of the file, in thousandths
FloatAt(off) == S32(file[off + 1], file[off + 2], file[off + 3], file[off + 4])

\* C24: from version 9 on a custom shape reads collides_with_split_nodes iff
\* version >= 25; reads a color of three bytes iff version >= 10, otherwise
\* consumes a 32-bit int and keeps the default color; reads its mass iff
\* version >= 11, otherwise consumes a float and has a mass of 40; reads its
\* bounciness iff version >= 14, otherwise consumes nothing and has 0.5;
\* reads its two pin fields iff version >= 24, otherwise consumes nothing and
\* has 0 in both; and the z of every static pin is -1.348 whatever was read
C24_CustomShapeGating ==
  DecodedOne /\ layout.version >= 9 =>
    LET v == layout.version
        k == CountAt("customShapes")
        cs == layout.customShapes[1]
        pin == k + 7 + Len(ShapeTail(v)) - 1
    IN  /\ trace[k + 7][1] = "collides_with_nodes"
        /\ ReadsInARow(trace, k + 7, <<"bool">> \o ShapeTail(v))
        /\ trace[k + 8 + Len(ShapeTail(v))][2] = "str"
        /\ cs.collides_with_split_nodes = (v >= 25)
        /\ cs.color = (IF v >= 10 THEN <<1, 2, 3, 255>> ELSE <<0, 0, 0, 0>>)
        /\ cs.mass = (IF v >= 11 THEN Half ELSE 40 * One)
        /\ cs.bounciness = (IF v >= 14 THEN Quarter ELSE Half)
        /\ cs.pin_motor_strength = (IF v >= 24 THEN Half ELSE 0)
        /\ cs.pin_target_velocity = (IF v >= 24 THEN Half ELSE 0)
        /\ trace[pin][2] = "vec3" /\ FloatAt(trace[pin][3] + 8) = Half
        /\ cs.static_pins = << <<One, -One, -1348>> >>

\* C24 witness: a custom shape of version 9 was decoded: an int in the place
\* of the color, a float in the place of the mass, no bounciness, no pin field
C24_Witness ==
  /\ DecodedOne /\ layout.version = 9
  /\ layout.customShapes[1].color = <<0, 0, 0, 0>>
  /\ layout.customShapes[1].mass = 40 * One
  /\ layout.customShapes[1].bounciness = Half
  /\ layout.customShapes[1].static_pins[1][3] = -1348

\* C24 witness: a custom shape of version 25 was decoded with every field read
C24_WitnessAll ==
  /\ DecodedOne /\ layout.version = 25
  /\ layout.customShapes[1].collides_with_split_nodes
  /\ layout.customShapes[1].bounciness = Quarter
  /\ layout.customShapes[1].pin_motor_strength = Half
  /\ layout.customShapes[1].static_pins[1][3] = -1348

\* the entries of the written trace that are the checkpoint count of a vehicle
CheckpointCounts ==
  {k \in DOMAIN wtrace : wtrace[k][1] = "checkpoint_guids" /\ wtrace[k][2] = "count"}

\* the entry of the checkpoint count of the i-th vehicle written
CheckpointCountOf(i) ==
  CHOOSE k \in CheckpointCounts : Cardinality({j \in CheckpointCounts : j < k}) = i - 1

\* the checkpoint GUIDs the file holds for the i-th vehicle: the count, then
\* that many strings
WrittenCheckpoints(i) ==
  LET k == CheckpointCountOf(i)
      count == readInt32(file, [Reader0 EXCEPT !.p = wtrace[k][3]]).v
  IN  [j \in 1..count |-> readString(file, [Reader0 EXCEPT !.p = wtrace[k + j][3]]).v]

\* the Serializer has written the file of the Layout src
Serialized == given.op = "encode" /\ pc = "serialized"

\* C25: the checkpoint GUID list the Serializer writes for the i-th vehicle
\* is the i-th vehicle's own checkpoint_guids, for every Layout, one in which
\* two vehicles share a GUID too, and no encoding ends in the exit(1) of the
\* vehicle lookup
C25_OwnCheckpoints ==
  /\ given.op = "encode" => pc # "exit1"
  /\ Serialized =>
       /\ Cardinality(CheckpointCounts) = Len(src.vehicles)
       /\ \A i \in DOMAIN src.vehicles :
            WrittenCheckpoints(i) = src.vehicles[i].checkpoint_guids

\* C25 for the Layouts whose vehicles have GUIDs of their own
C25_OwnCheckpointsUniqueGuids ==
  /\ given.op = "encode" => pc # "exit1"
  /\ (Serialized /\ \A i, j \in DOMAIN src.vehicles :
                       src.vehicles[i].guid = src.vehicles[j].guid => i = j) =>
       /\ Cardinality(CheckpointCounts) = Len(src.vehicles)
       /\ \A i \in DOMAIN src.vehicles :
            WrittenCheckpoints(i) = src.vehicles[i].checkpoint_guids

\* C25: a second vehicle without checkpoints that repeats the GUID of the
\* first was written with the checkpoint of the first
C25_FirstVehiclesCheckpoints ==
  /\ Serialized /\ Len(src.vehicles) = 2
  /\ src.vehicles[2].guid = src.vehicles[1].guid
  /\ src.vehicles[2].checkpoint_guids = <<>>
  /\ WrittenCheckpoints(2) = src.vehicles[1].checkpoint_guids
  /\ Len(WrittenCheckpoints(2)) = 1

\* the bridge payload of a slot file was handed to SimpleBridgeDeserializer
PayloadDecoded == given.op = "slot" /\ simple # <<>>

\* C26: SimpleBridgeDeserializer reads no byte at or after the end of the
\* bridge payload of count * size bytes it is given, whatever the payload:
\* a truncated one, or one whose counts or string lengths exceed the bytes
\* left
C26_StaysInsidePayload ==
  PayloadDecoded => simple[1].st.ok

\* C26 for the payloads that hold a whole bridge of version 10, the edges of
\* which have no GUID
C26_WholePayloadStaysInside ==
  (PayloadDecoded /\ given.mut \notin {"short", "empty", "wrap"} /\ given.bver = 10)
    => simple[1].st.ok

\* C26: the decoder was given a payload without its last byte and read past
\* the end of it
C26_ReadPastPayload ==
  /\ PayloadDecoded /\ given.mut = "short" /\ given.pos = 10
  /\ ~simple[1].st.ok /\ pc = "failed"

\* the check c = <<value, min, max, warnMin, warnMax>> has its value inside
\* [min, max] and outside [warnMin, warnMax]
WarnBand(c) == ~Hard(c) /\ (c[1] < c[4] \/ c[1] > c[5])

\* the offense counter after the i-th check of the run
CounterAfter(i) == IF i < Len(trace) THEN trace[i + 1][6] ELSE rd.un

\* C27: a value inside [min, max] but outside [warnMin, warnMax] never
\* increments the offense counter, yet ends the process if two values outside
\* [min, max] were recorded earlier in the run (and only then); a value inside
\* [warnMin, warnMax] never ends the process and never changes the counter,
\* whatever the counter holds
C27_WarnBand ==
  given.op = "guard" =>
    \A i \in DOMAIN trace :
      /\ WarnBand(trace[i]) =>
            /\ CounterAfter(i) = trace[i][6]
            /\ AbortedAt(i) = (HardBefore(i) >= 2)
      /\ (~Hard(trace[i]) /\ ~WarnBand(trace[i])) =>
            /\ CounterAfter(i) = trace[i][6]
            /\ ~AbortedAt(i)

\* C27 witness: a value of the warning band ended the run after two values
\* outside [min, max]
C27_Witness ==
  /\ given.op = "guard" /\ pc = "exit1" /\ Len(trace) = 3
  /\ Hard(trace[1]) /\ Hard(trace[2]) /\ WarnBand(trace[3]) /\ rd.un = 3

\* C27 witness: a value inside [warnMin, warnMax] was checked after two values
\* outside [min, max] and the run went on
C27_WitnessInside ==
  /\ given.op = "guard" /\ pc = "ensureReasonable" /\ Len(trace) = 3
  /\ Hard(trace[1]) /\ Hard(trace[2])
  /\ ~Hard(trace[3]) /\ ~WarnBand(trace[3]) /\ rd.un = 3

\* C27 witness: a value of the warning band was checked first and the run
\* went on with the counter as it was
C27_WitnessFirst ==
  /\ given.op = "guard" /\ pc = "ensureReasonable" /\ Len(trace) = 1
  /\ WarnBand(trace[1]) /\ rd.un = 1

\* a string was written by writeString
StringWritten == given.op = "string" /\ pc # "writeString"

\* C28: for every string s written by Serializer::writeString the 16-bit
\* length prefix is the number of body bytes written, so that
\* Deserializer::readString on the output returns s and leaves the cursor
\* right after it; the lengths of 65536 and more are among the strings, for
\* which every byte is written and the prefix is the length modulo 2^16
C28_PrefixMatchesBody ==
  StringWritten =>
    /\ U16(file[1], file[2]) = Len(file) - 2
    /\ SubSeq(file, 3, Len(file)) = src.value
    /\ pc # "readString" =>
          /\ pc = "stringRead"
          /\ layout.value = src.value
          /\ rd.p = Len(file)

\* C28 for the strings of at most 65535 bytes
C28_PrefixMatchesShortBody ==
  (StringWritten /\ Len(src.value) <= 65535) =>
    /\ U16(file[1], file[2]) = Len(file) - 2
    /\ SubSeq(file, 3, Len(file)) = src.value
    /\ pc # "readString" =>
          /\ pc = "stringRead"
          /\ layout.value = src.value
          /\ rd.p = Len(file)

\* C28: a string of 65537 bytes was written whole with a prefix of 1 and read
\* back as its first byte
C28_LongStringCut ==
  /\ given.op = "string" /\ pc = "stringRead" /\ Len(src.value) = 65537
  /\ Len(file) = 65539 /\ U16(file[1], file[2]) = 1
  /\ layout.value = <<98>> /\ rd.p = 3

\* the index in the trace of the first entry named nm
EntryAt(nm) ==
  CHOOSE k \in DOMAIN trace : trace[k][1] = nm /\ \A j \in 1..(k - 1) : trace[j][1] # nm

\* the names of the trace entries from index from on, count of them
NamesFrom(from, count) == [i \in 1..count |-> trace[from + i - 1][1]]

\* C29: for a layout version of 4 or less no bridge version is read from the
\* stream and the version of the decoded bridge stays 0; every edge of the
\* inline bridge is decoded without a GUID being read, every piston has the
\* piston correction applied, and the springs, the hydraulics controller
\* phases and the anchors of the bridge are empty
C29_LegacyInlineBridge ==
  (DecodedOne /\ layout.version <= 4) =>
    LET k == EntryAt("stubKey")
        b == layout.bridge
    IN  /\ trace[k + 1] = <<"joints", "count", trace[k][3] + 2 + Len(layout.stubKey)>>
        /\ b.version = 0
        /\ NamesFrom(EntryAt("edges"), 7) =
             <<"edges", "material_type", "node_a_guid", "node_b_guid", "joint_a_part",
               "joint_b_part", "pistons">>
        /\ Len(b.edges) = 1 /\ b.edges[1].guid = <<>>
        /\ Len(b.pistons) = 1
        /\ FloatAt(trace[EntryAt("pistons") + 1][3]) = given.x
        /\ b.pistons[1].normalized_value = Curve(given.x)
        /\ b.pistons[1].normalized_value # given.x
        /\ b.springs = <<>> /\ b.phases = <<>> /\ b.anchors = <<>>

\* C29 witness: a layout of version 4 was decoded, the piston value 0.5 of
\* its inline bridge stored as 0
C29_Witness ==
  /\ DecodedOne /\ layout.version = 4 /\ layout.bridge.version = 0
  /\ Len(layout.bridge.joints) = 1 /\ layout.bridge.edges[1].guid = <<>>
  /\ layout.bridge.pistons[1].normalized_value = 0

\* the entry of the written trace that is the count of the pillars section
PillarsCount ==
  CHOOSE k \in DOMAIN wtrace : wtrace[k][1] = "pillars" /\ wtrace[k][2] = "count"

\* the bytes the pillars ps take in the file: a position, a height and a
\* prefab name each
RECURSIVE PillarBytes(_)
PillarBytes(ps) ==
  IF ps = <<>> THEN 0
  ELSE 12 + 4 + 2 + Len(Head(ps).prefab_name) + PillarBytes(Tail(ps))

\* the offset at which the pillars section of the written file ends
PillarsEnd == wtrace[PillarsCount][3] + 4 + PillarBytes(src.pillars)

\* the Serializer is done and the file it wrote is, or was, being decoded
Written ==
  /\ given.op = "encode"
  /\ pc \notin {"serializePreBridgeBinary", "serializeBridgeBinary", "serializePostBridgeBinary"}

\* C30: for every Layout, a modded one with mod data too, the Serializer
\* writes a version that is not negative and nothing after the pillars
\* section, so that decoding the written file never sets isModded and never
\* reads mod data
C30_EncodingDropsModded ==
  Written =>
    /\ readInt32(file, Reader0).v >= 0
    /\ Len(file) = PillarsEnd
    /\ \A k \in DOMAIN wtrace : wtrace[k][1] # "modData"
    /\ "version" \in DOMAIN layout =>
         /\ ~layout.isModded
         /\ "modData" \notin DOMAIN layout
         /\ \A i \in DOMAIN sections : sections[i] # "modData"
    /\ pc = "returned" => rd.p = Len(file)

\* C30 witness: a modded Layout holding a mod was written and decoded back to
\* the end of the pillars section
C30_Witness ==
  /\ Written /\ pc = "returned"
  /\ src.isModded /\ src.modData.mods # <<>>
  /\ rd.p = PillarsEnd
  /\ ~layout.isModded

\* C30 witness: the same with a pillar in the Layout, the decoding begun
C30_WitnessPillar ==
  /\ Written /\ "version" \in DOMAIN layout
  /\ src.isModded /\ src.modData.mods # <<>>
  /\ Len(src.pillars) >= 1
  /\ ~layout.isModded


=============================================================================
